---- MODULE Spec2Model ----
(***************************************************************************)
(* Model of auto_buy.py (Binance spot auto-buy script): the allocation     *)
(* engine, the consolidator and the execution coordinator.                 *)
(*                                                                         *)
(* Money is counted in cents (Decimal with two places).  A Python float is *)
(* written as a pair [num, den] of naturals that stands for the IEEE-754   *)
(* double nearest to num/den; Decimal(str(x)) of such a float is computed  *)
(* digit by digit (round-to-nearest-even mantissa of 53 bits, then the     *)
(* shortest decimal string that reads back as the same double).            *)
(***************************************************************************)
EXTENDS Integers, Sequences, FiniteSets, TLC

VARIABLES
    pc,                 \* position in the flow
    total_amount,       \* run: total_amount (a Decimal in Spec and SpecMain, else cents)
    balance,            \* the account's free USDC at the exchange (cents)
    mode,               \* run: mode, "single" or "combined"
    strategy_keys,      \* run: keys of selected_strategies, in order
    selections,         \* per strategy, per category: the list select_tokens_for_category returned
    allocations,        \* run: allocations, a list of <<token, amount>>
    consolidated,       \* run: consolidated, a list of <<token, amount>>
    idx,                \* execute_orders: position of the for loop in its list
    results,            \* execute_orders: results, token -> outcome
    symbol_info_cache,  \* BinanceTrader.symbol_info_cache, symbol -> info
    exchange_calls,     \* every request made to the Binance client, in order
    error,              \* the exception that left run, "" when none
    args,               \* the arguments of a function that is run on its own
    ret,                \* what that function returned; in a run, what
                        \* validate_order last returned
    balances,           \* run_take_profit: balances, a list of holdings
    tokens_to_sell,     \* run_take_profit: tokens_to_sell
    confirmed           \* what confirm_execution or confirm_take_profit
                        \* returned: "" before it is asked, "yes", "no"

vars == <<pc, total_amount, balance, mode, strategy_keys, selections, allocations,
          consolidated, idx, results, symbol_info_cache, exchange_calls, error,
          args, ret, balances, tokens_to_sell, confirmed>>

(***************************************************************************)
(* Natural numbers of any size: little-endian sequences of limbs in base   *)
(* 10^4 (TLC's own integers are 32 bits wide, a double's mantissa is 53).  *)
(***************************************************************************)
RECURSIVE BigOfNat(_)
BigOfNat(n) == IF n = 0 THEN <<>> ELSE <<n % 10000>> \o BigOfNat(n \div 10000)

RECURSIVE BigToNat(_)
BigToNat(a) == IF a = <<>> THEN 0 ELSE Head(a) + 10000 * BigToNat(Tail(a))

RECURSIVE BigStrip(_)
BigStrip(a) ==
    IF a # <<>> /\ a[Len(a)] = 0 THEN BigStrip(SubSeq(a, 1, Len(a) - 1)) ELSE a

\* a * k + carry for k below 2 * 10^5
RECURSIVE BigMulCarry(_, _, _)
BigMulCarry(a, k, carry) ==
    IF a = <<>> THEN BigOfNat(carry)
    ELSE LET x == Head(a) * k + carry
         IN  <<x % 10000>> \o BigMulCarry(Tail(a), k, x \div 10000)

BigMulSmall(a, k) == BigStrip(BigMulCarry(a, k, 0))

\* a * base^n for base 2 or 5, seven factors at a time
RECURSIVE BigMulPow(_, _, _)
BigMulPow(a, base, n) ==
    IF n = 0 THEN a
    ELSE LET e == IF n > 7 THEN 7 ELSE n
         IN  BigMulPow(BigMulSmall(a, base ^ e), base, n - e)

\* a * b where one factor is below 2 * 10^5
BigMul(a, b) ==
    IF Len(b) <= Len(a) THEN BigMulSmall(a, BigToNat(b)) ELSE BigMulSmall(b, BigToNat(a))

RECURSIVE BigAddCarry(_, _, _)
BigAddCarry(a, b, carry) ==
    IF a = <<>> /\ b = <<>> THEN BigOfNat(carry)
    ELSE LET x == (IF a = <<>> THEN 0 ELSE Head(a)) + (IF b = <<>> THEN 0 ELSE Head(b))
                  + carry
         IN  <<x % 10000>> \o BigAddCarry(IF a = <<>> THEN <<>> ELSE Tail(a),
                                          IF b = <<>> THEN <<>> ELSE Tail(b),
                                          x \div 10000)

\* a * b for factors of any size
RECURSIVE BigProduct(_, _)
BigProduct(a, b) ==
    IF b = <<>> THEN <<>>
    ELSE BigStrip(BigAddCarry(BigMulSmall(a, Head(b)),
                              <<0>> \o BigProduct(a, Tail(b)), 0))

\* quotient and remainder of a by a small k
RECURSIVE BigDivRem(_, _)
BigDivRem(a, k) ==
    IF a = <<>> THEN [q |-> <<>>, r |-> 0]
    ELSE LET hi == BigDivRem(Tail(a), k)
             x  == hi.r * 10000 + Head(a)
         IN  [q |-> <<x \div k>> \o hi.q, r |-> x % k]

RECURSIVE BigCmpFrom(_, _, _)
BigCmpFrom(a, b, i) ==
    IF i = 0 THEN 0
    ELSE IF a[i] < b[i] THEN -1
    ELSE IF a[i] > b[i] THEN 1
    ELSE BigCmpFrom(a, b, i - 1)

\* -1, 0 or 1 as a < b, a = b, a > b (both stripped)
BigCmp(a, b) ==
    IF Len(a) < Len(b) THEN -1
    ELSE IF Len(a) > Len(b) THEN 1
    ELSE BigCmpFrom(a, b, Len(a))

RECURSIVE BigSubBorrow(_, _, _)
BigSubBorrow(a, b, borrow) ==
    IF a = <<>> THEN <<>>
    ELSE LET bd == IF b = <<>> THEN 0 ELSE Head(b)
             x  == Head(a) - bd - borrow
         IN  <<(x + 10000) % 10000>>
             \o BigSubBorrow(Tail(a), IF b = <<>> THEN <<>> ELSE Tail(b),
                             IF x < 0 THEN 1 ELSE 0)

\* a - b for a >= b
BigSub(a, b) == BigStrip(BigSubBorrow(a, b, 0))

BigAddOne(a) == BigStrip(BigMulCarry(a, 1, 1))

BigIsOdd(a) == a # <<>> /\ a[1] % 2 = 1

\* 10^d
BigPow10(d) == [i \in 1..(d \div 4) |-> 0] \o <<10 ^ (d % 4)>>

\* a div 10^d and a mod 10^d
BigHigh(a, d) ==
    BigStrip(BigDivRem(SubSeq(a, (d \div 4) + 1, Len(a)), 10 ^ (d % 4)).q)

BigLow(a, d) ==
    IF d \div 4 >= Len(a) THEN a
    ELSE BigStrip(SubSeq(a, 1, d \div 4)
                  \o <<BigDivRem(SubSeq(a, (d \div 4) + 1, Len(a)), 10 ^ (d % 4)).r>>)

\* number of decimal digits of a
BigDigits(a) ==
    IF a = <<>> THEN 0
    ELSE 4 * (Len(a) - 1)
         + (IF a[Len(a)] >= 1000 THEN 4 ELSE IF a[Len(a)] >= 100 THEN 3
            ELSE IF a[Len(a)] >= 10 THEN 2 ELSE 1)

(***************************************************************************)
(* Python floats.  [num, den] stands for the double nearest to num/den     *)
(* (num >= den >= 1).  An integer below 2^53 is its own double.            *)
(***************************************************************************)
FloatOfInt(n) == [num |-> n, den |-> 1]

\* x * 100 and x / y of the source, for x and y of integer value (both exact
\* doubles, so the quotient is the correctly rounded double of the ratio)
FloatTimes100(x) == [num |-> x.num * 100, den |-> x.den]

FloatDiv(x, y) == [num |-> x.num * y.den, den |-> x.den * y.num]

RECURSIVE Log2Floor(_, _, _)
Log2Floor(n, d, k) == IF 2 * d > n THEN k ELSE Log2Floor(n, 2 * d, k + 1)

\* the double nearest x.num / x.den is Mantissa * 2^(-FloatShift): 53 bits,
\* round to nearest, ties to even
FloatShift(x) == 52 - Log2Floor(x.num, x.den, 0)

FloatMantissa(x) ==
    LET dr == BigDivRem(BigMulPow(BigOfNat(x.num), 2, FloatShift(x)), x.den)
        q  == BigStrip(dr.q)
    IN  IF 2 * dr.r > x.den \/ (2 * dr.r = x.den /\ BigIsOdd(q))
        THEN BigAddOne(q) ELSE q

\* float.__repr__: the fewest significant digits that read back as the same
\* double, nearest to its exact value.  V is the exact value times 10^shift,
\* H is one unit in the last place times 10^shift; d low digits are dropped.
RoundedTo(V, d) ==
    LET lo == BigLow(V, d)
        hi == BigHigh(V, d)
        c  == BigCmp(BigMulSmall(lo, 2), BigPow10(d))
        up == c = 1 \/ (c = 0 /\ BigIsOdd(hi))
    IN  [coef |-> IF up THEN BigAddOne(hi) ELSE hi,
         diff |-> IF up THEN BigSub(BigPow10(d), lo) ELSE lo]

ReadsBack(V, H, even, d) ==
    LET e == BigCmp(BigMulSmall(RoundedTo(V, d).diff, 2), H)
    IN  d = 0 \/ e = -1 \/ (e = 0 /\ even)

ShortestDigits(V, H, even) ==
    LET good == {x \in 0..(BigDigits(V) - 1) : ReadsBack(V, H, even, x)}
        d    == CHOOSE x \in good : \A y \in good : y <= x
    IN  [coef |-> RoundedTo(V, d).coef, drop |-> d]

(***************************************************************************)
(* Decimal: coef * 10^exp, coef a big natural.  A product is rounded to    *)
(* the 28 significant digits of the default context, half to even; the     *)
(* products of a whole number of cents under 10^7 have fewer digits and    *)
(* are exact.                                                              *)
(***************************************************************************)
ContextPrecision == 28

\* Decimal(str(x)) for a float x
DecimalOfStr(x) ==
    LET m == FloatMantissa(x)
        t == FloatShift(x)
        H == BigMulPow(<<1>>, 5, t)
        V == BigMulPow(m, 5, t)
        s == ShortestDigits(V, H, ~BigIsOdd(m))
    IN  [coef |-> s.coef, exp |-> s.drop - t]

\* a Decimal amount of money from cents
DecimalOfCents(c) == [coef |-> BigOfNat(c), exp |-> -2]

\* Decimal(amount_str) for a text of digits with `places' decimals
DecimalOfDigits(digits, places) == [coef |-> digits, exp |-> -places]

\* coef cut to the context precision: high and low are coef div 10^d and
\* coef mod 10^d, the digits kept and the d digits dropped
RoundHalfEven(high, low, d) ==
    IF \/ BigCmp(BigMulSmall(low, 2), BigPow10(d)) = 1
       \/ BigCmp(BigMulSmall(low, 2), BigPow10(d)) = 0 /\ BigIsOdd(high)
    THEN BigAddOne(high)
    ELSE high

\* a coefficient of one digit too many after a carry (10^28) loses its zero
DecNormal(coef, exp) ==
    IF BigDigits(coef) > ContextPrecision
    THEN [coef |-> BigHigh(coef, 1), exp |-> exp + 1]
    ELSE [coef |-> coef, exp |-> exp]

DecRound(coef, exp) ==
    IF BigDigits(coef) <= ContextPrecision
    THEN [coef |-> coef, exp |-> exp]
    ELSE DecNormal(RoundHalfEven(BigHigh(coef, BigDigits(coef) - ContextPrecision),
                                 BigLow(coef, BigDigits(coef) - ContextPrecision),
                                 BigDigits(coef) - ContextPrecision),
                   exp + BigDigits(coef) - ContextPrecision)

DecMul(a, b) == DecRound(BigProduct(a.coef, b.coef), a.exp + b.exp)

\* a / Decimal(str(n)) for a small whole n: the quotient carried two digits
\* past the context precision; a remainder left over is one more digit, 1
DecDivTail(division, exp) ==
    IF division.r = 0
    THEN DecRound(BigStrip(division.q), exp)
    ELSE DecRound(BigAddOne(BigMulSmall(BigStrip(division.q), 10)), exp - 1)

DecDivAt(a, n, shift) ==
    DecDivTail(BigDivRem(BigProduct(a.coef, BigPow10(shift)), n), a.exp - shift)

DecDiv(a, n) ==
    DecDivAt(a, n, IF BigDigits(a.coef) > ContextPrecision + 2 THEN 0
                   ELSE ContextPrecision + 2 - BigDigits(a.coef))

\* the coefficient of a at the exponent e <= a.exp
DecScaled(a, e) == BigStrip(BigProduct(a.coef, BigPow10(a.exp - e)))

\* -1, 0 or 1 as a < b, a = b, a > b
DecCmp(a, b) ==
    BigCmp(DecScaled(a, IF a.exp < b.exp THEN a.exp ELSE b.exp),
           DecScaled(b, IF a.exp < b.exp THEN a.exp ELSE b.exp))

\* a / Decimal("100")
DecDiv100(a) == [coef |-> a.coef, exp |-> a.exp - 2]

\* variant of the quantize step that rounds up instead of down
QuantizeUp(a) ==
    IF a.exp + 2 >= 0
    THEN BigToNat(BigMulSmall(a.coef, 10 ^ (a.exp + 2)))
    ELSE BigToNat(BigHigh(a.coef, -(a.exp + 2)))
         + (IF BigStrip(BigLow(a.coef, -(a.exp + 2))) = <<>> THEN 0 ELSE 1)

\* variant of the quantize step that truncates to one decimal (Decimal("0.1"))
QuantizeDownOnePlace(a) ==
    IF a.exp + 1 >= 0
    THEN 10 * BigToNat(BigMulSmall(a.coef, 10 ^ (a.exp + 1)))
    ELSE 10 * BigToNat(BigHigh(a.coef, -(a.exp + 1)))

\* a.quantize(Decimal("0.01"), rounding=ROUND_DOWN), in cents
QuantizeDown(a) ==
    IF a.exp + 2 >= 0
    THEN BigToNat(BigMulSmall(a.coef, 10 ^ (a.exp + 2)))
    ELSE BigToNat(BigHigh(a.coef, -(a.exp + 2)))

\* An amount of money is a number of cents: an integer, or, for a total
\* that went through no quantize and is no whole number of cents, the
\* Decimal number of cents.
IsWholeCents(a) == a.exp + 2 >= 0 \/ BigLow(a.coef, -(a.exp + 2)) = <<>>

Amount(a) ==
    IF IsWholeCents(a) THEN QuantizeDown(a) ELSE [coef |-> a.coef, exp |-> a.exp + 2]

(***************************************************************************)
(* Strategies (get_strategies)                                             *)
(***************************************************************************)
CategoryAllocation(n, p, o) ==
    [name |-> n, percentage |-> FloatOfInt(p), options |-> o]

get_strategies ==
    [moderada |->
        [name |-> "Moderada",
         categories |-> <<
            CategoryAllocation("Bitcoin", 30, <<"BTC">>),
            CategoryAllocation("Ethereum", 30, <<"ETH">>),
            CategoryAllocation("Tokens Nativos", 20, <<"ADA", "XRP">>),
            CategoryAllocation("Token Protocolo", 10, <<"CAKE", "GRT">>),
            CategoryAllocation("StableCoin", 10, <<"USDC", "PAXG">>) >>],
     conservadora |->
        [name |-> "Conservadora",
         categories |-> <<
            CategoryAllocation("Bitcoin", 50, <<"BTC">>),
            CategoryAllocation("Ethereum", 20, <<"ETH">>),
            CategoryAllocation("StableCoin", 30, <<"USDC", "PAXG">>) >>]]

TokenSelection(t, p) == [token |-> t, distribution_percentage |-> p]

\* The floats the allocation engine can meet: whole percentages, and a whole
\* percentage times 100 over a whole total.  Decimal(str(x)) is worked out
\* once for each of them.
PercentFloats ==
    {FloatOfInt(n) : n \in 1..100}
    \cup {[num |-> 100 * n, den |-> d] : n \in {10, 20, 30, 50}, d \in {10 * k : k \in 1..10}}

DecimalOfStrTable == [x \in PercentFloats |-> DecimalOfStr(x)]

DecimalOfFloat(x) == DecimalOfStrTable[x]

(***************************************************************************)
(* TradingOrchestrator.calculate_allocations.  chosen[i] is the list that  *)
(* select_tokens_for_category returned for the i-th category, total the    *)
(* Decimal total_amount.                                                   *)
(***************************************************************************)
RECURSIVE SumActivePercentage(_, _, _)
SumActivePercentage(categories, chosen, i) ==
    IF i > Len(categories) THEN 0
    ELSE (IF chosen[i] # <<>> THEN categories[i].percentage.num ELSE 0)
         + SumActivePercentage(categories, chosen, i + 1)

active_total_percentage(categories, chosen) ==
    FloatOfInt(SumActivePercentage(categories, chosen, 1))

redistribute_percentages(chosen) == \E i \in DOMAIN chosen : chosen[i] = <<>>

\* variant without the rescaling of lines 1165-1166
effective_percentage_unscaled(category, categories, chosen) == category.percentage

effective_percentage(category, categories, chosen) ==
    IF redistribute_percentages(chosen)
    THEN FloatDiv(FloatTimes100(category.percentage),
                  active_total_percentage(categories, chosen))
    ELSE category.percentage

category_amount(total, effective) ==
    DecDiv100(DecMul(total, DecimalOfFloat(effective)))

token_amount(cat_amount, token_selection) ==
    QuantizeDown(DecDiv100(DecMul(cat_amount,
        DecimalOfFloat(FloatOfInt(token_selection.distribution_percentage)))))

RECURSIVE TokenAllocations(_, _, _)
TokenAllocations(cat_amount, selected_tokens, j) ==
    IF j > Len(selected_tokens) THEN <<>>
    ELSE << <<selected_tokens[j].token, token_amount(cat_amount, selected_tokens[j])>> >>
         \o TokenAllocations(cat_amount, selected_tokens, j + 1)

RECURSIVE CategoryAllocations(_, _, _, _)
CategoryAllocations(categories, total, chosen, i) ==
    IF i > Len(categories) THEN <<>>
    ELSE (IF chosen[i] = <<>> THEN <<>>
          ELSE TokenAllocations(
                   category_amount(total,
                       effective_percentage(categories[i], categories, chosen)),
                   chosen[i], 1))
         \o CategoryAllocations(categories, total, chosen, i + 1)

\* variant without the early return of lines 1139-1146
calculate_allocations_no_fallback(strategy, total, chosen) ==
    CategoryAllocations(strategy.categories, total, chosen, 1)

calculate_allocations(strategy, total, chosen) ==
    IF \A i \in DOMAIN chosen : chosen[i] = <<>>
    THEN << <<"USDC", Amount(total)>> >>
    ELSE CategoryAllocations(strategy.categories, total, chosen, 1)

(***************************************************************************)
(* Inputs.  What the user may answer in select_tokens_for_category: skip   *)
(* the category, one token at 100%, or two tokens of the category in       *)
(* either order with whole percentages that add up to 100.                 *)
(***************************************************************************)
MaxCents == 10
MaxTens == 10

\* totals from 0.01 to MaxCents cents, and 10.00, 20.00, ... USDC
TotalAmounts == (1..MaxCents) \cup {1000 * k : k \in 1..MaxTens}

SplitPercentages == {30, 50}

select_tokens_for_category(category) ==
    LET opts == {category.options[i] : i \in DOMAIN category.options}
    IN  {<<>>}
        \cup {<<TokenSelection(o, 100)>> : o \in opts}
        \cup {<<TokenSelection(a, q), TokenSelection(b, 100 - q)>> :
                 <<a, b, q>> \in {x \in opts \X opts \X SplitPercentages : x[1] # x[2]}}

\* one answer per category, in category order
RECURSIVE UserChoices(_, _)
UserChoices(categories, i) ==
    IF i > Len(categories) THEN {<<>>}
    ELSE {<<c>> \o rest : c \in select_tokens_for_category(categories[i]),
                          rest \in UserChoices(categories, i + 1)}

StrategyKeys == {"moderada", "conservadora"}


(***************************************************************************)
(* TradingOrchestrator.calculate_combined_allocations.  chosen[k] holds    *)
(* the answers given while the k-th strategy was configured.               *)
(***************************************************************************)
\* variant of the split that takes the share up to the next cent
amount_per_strategy_up(strategies, total) ==
    QuantizeUp(DecDiv(total, Len(strategies)))

\* lines 1197-1198, in cents
amount_per_strategy(strategies, total) ==
    QuantizeDown(DecDiv(total, Len(strategies)))

RECURSIVE CombinedAllocations(_, _, _, _)
CombinedAllocations(strategies, per_strategy, chosen, k) ==
    IF k > Len(strategies) THEN <<>>
    ELSE calculate_allocations(strategies[k], DecimalOfCents(per_strategy), chosen[k])
         \o CombinedAllocations(strategies, per_strategy, chosen, k + 1)

calculate_combined_allocations(strategies, total, chosen) ==
    CombinedAllocations(strategies, amount_per_strategy(strategies, total), chosen, 1)

(***************************************************************************)
(* TradingOrchestrator.consolidate_allocations.  The dict is a list of     *)
(* <<token, amount>> in insertion order; list.sort is stable, and with     *)
(* reverse=True equal keys keep their original order.                      *)
(***************************************************************************)
\* variant of the update of an existing key that overwrites the amount
OverwriteAmount(old, amount) == amount

\* consolidated[token] += amount
AddAmount(old, amount) == old + amount

RECURSIVE Accumulate(_, _, _)
Accumulate(allocs, i, dict) ==
    IF i > Len(allocs) THEN dict
    ELSE LET token == allocs[i][1]
             amount == allocs[i][2]
         IN  IF \E k \in DOMAIN dict : dict[k][1] = token
             THEN Accumulate(allocs, i + 1,
                      [k \in DOMAIN dict |->
                          IF dict[k][1] = token
                          THEN <<token, AddAmount(dict[k][2], amount)>>
                          ELSE dict[k]])
             ELSE Accumulate(allocs, i + 1, Append(dict, <<token, amount>>))

\* variant of the sort that puts an entry before the entries of equal amount
InsertBeforeEqual(sorted, x) ==
    LET n == Cardinality({k \in DOMAIN sorted : sorted[k][2] > x[2]})
    IN  SubSeq(sorted, 1, n) \o <<x>> \o SubSeq(sorted, n + 1, Len(sorted))

\* one step of the stable descending sort: x goes behind every entry whose
\* amount is at least its own
InsertSorted(sorted, x) ==
    LET n == Cardinality({k \in DOMAIN sorted : sorted[k][2] >= x[2]})
    IN  SubSeq(sorted, 1, n) \o <<x>> \o SubSeq(sorted, n + 1, Len(sorted))

\* variant of the sort that leaves the entries in insertion order
LeftInInsertionOrder(result, i, sorted) == result

RECURSIVE SortDescending(_, _, _)
SortDescending(result, i, sorted) ==
    IF i > Len(result) THEN sorted
    ELSE SortDescending(result, i + 1, InsertSorted(sorted, result[i]))

consolidate_allocations(allocs) ==
    SortDescending(Accumulate(allocs, 1, <<>>), 1, <<>>)

(***************************************************************************)
(* BinanceTrader.  A call to the client is answered by the exchange; the   *)
(* answer is an input of the step.  "ok" is a normal answer, any other     *)
(* answer names the exception the client raised ("None": get_symbol_info   *)
(* found no such symbol).  Quantities are counted in units of 0.00001      *)
(* token, prices in cents per token.  Each operation returns its value     *)
(* with the cache as it leaves it, the client calls it made and the        *)
(* exception that left it ("" when none).                                  *)
(***************************************************************************)
BASE_ASSET == "USDC"

None == <<>>
Some(x) == <<x>>

EmptyDict == [k \in {} |-> 0]
DictPut(dict, key, value) ==
    [k \in DOMAIN dict \cup {key} |-> IF k = key THEN value ELSE dict[k]]

\* float(amount) for an amount in cents
FloatOfCents(c) == [num |-> c, den |-> 100]

QtyUnitsPerToken == 100000
DefaultMinNotional == 1000
DefaultMinQty == 1
DefaultMaxQty == 99999999
DefaultStepSize == 1

\* what the exchange publishes for a symbol: NOTIONAL 5 USDC, LOT_SIZE
\* minQty 0.001, maxQty 1000, stepSize 0.0001
ExchangeSymbolInfo(symbol) ==
    [symbol |-> symbol, minNotional |-> 500,
     minQty |-> 100, maxQty |-> BigOfNat(100000000), stepSize |-> 10]

InfoResult(info, cache, calls, raised) ==
    [info |-> info, cache |-> cache, calls |-> calls, raised |-> raised]

InfoCall(symbol, reply) ==
    [method |-> "get_symbol_info", symbol |-> symbol, reply |-> reply]

\* variant of the lookup that asks the exchange every time
get_symbol_info_uncached(symbol, cache, reply) ==
    IF reply = "ok"
    THEN InfoResult(Some(ExchangeSymbolInfo(symbol)),
                    DictPut(cache, symbol, ExchangeSymbolInfo(symbol)),
                    <<InfoCall(symbol, reply)>>, "")
    ELSE InfoResult(None, cache, <<InfoCall(symbol, reply)>>, "")

get_symbol_info(symbol, cache, reply) ==
    IF symbol \in DOMAIN cache
    THEN InfoResult(Some(cache[symbol]), cache, <<>>, "")
    ELSE IF reply = "ok"
    THEN InfoResult(Some(ExchangeSymbolInfo(symbol)),
                    DictPut(cache, symbol, ExchangeSymbolInfo(symbol)),
                    <<InfoCall(symbol, reply)>>, "")
    ELSE IF reply \in {"None", "BinanceAPIException"}
    THEN InfoResult(None, cache, <<InfoCall(symbol, reply)>>, "")
    ELSE InfoResult(None, cache, <<InfoCall(symbol, reply)>>, reply)

\* r is what get_symbol_info returned
MinNotionalOf(r) ==
    [value |-> IF r.info = None THEN DefaultMinNotional ELSE r.info[1].minNotional,
     cache |-> r.cache, calls |-> r.calls, raised |-> r.raised]

get_min_notional(symbol, cache, reply) ==
    MinNotionalOf(get_symbol_info(symbol, cache, reply))

\* r is what get_symbol_info returned
LotSizeOf(r) ==
    IF r.info = None
    THEN [min_qty |-> DefaultMinQty,
          max_qty |-> BigMulSmall(BigOfNat(DefaultMaxQty), QtyUnitsPerToken),
          step_size |-> DefaultStepSize,
          cache |-> r.cache, calls |-> r.calls, raised |-> r.raised]
    ELSE [min_qty |-> r.info[1].minQty, max_qty |-> r.info[1].maxQty,
          step_size |-> r.info[1].stepSize,
          cache |-> r.cache, calls |-> r.calls, raised |-> r.raised]

get_lot_size_info(symbol, cache, reply) ==
    LotSizeOf(get_symbol_info(symbol, cache, reply))

\* variant of the adjustment that goes up to the next multiple of step_size
adjust_quantity_upwards(quantity, step_size) ==
    IF step_size = 0 THEN quantity
    ELSE [num |-> ((quantity.num + quantity.den * step_size - 1)
                   \div (quantity.den * step_size)) * step_size,
          den |-> 1]

\* quantity is a fraction [num, den] of units; the result is a whole number
\* of units unless step_size is zero
adjust_quantity_to_lot_size(quantity, step_size) ==
    IF step_size = 0 THEN quantity
    ELSE [num |-> (quantity.num \div (quantity.den * step_size)) * step_size, den |-> 1]

TickerCall(symbol, reply) ==
    [method |-> "get_symbol_ticker", symbol |-> symbol,
     reply |-> IF reply.error = "" THEN "ok" ELSE reply.error]

\* reply = [error, price]; a BinanceAPIException is logged and raised again,
\* any other exception is not caught
get_current_price(symbol, reply) ==
    IF reply.error = ""
    THEN [price |-> reply.price, calls |-> <<TickerCall(symbol, reply)>>, raised |-> ""]
    ELSE IF reply.error = "BinanceAPIException"
    THEN [price |-> 0, calls |-> <<TickerCall(symbol, reply)>>, raised |-> reply.error]
    ELSE [price |-> 0, calls |-> <<TickerCall(symbol, reply)>>, raised |-> reply.error]

OrderVerdict(is_valid, message, quantity, cache, calls, raised) ==
    [is_valid |-> is_valid, message |-> message, quantity |-> quantity,
     cache |-> cache, calls |-> calls, raised |-> raised]

\* variant of the checks on the adjusted quantity without the upper limit
CheckQuantityNoMax(adjusted_quantity, lot, calls) ==
    IF adjusted_quantity.num < lot.min_qty * adjusted_quantity.den
    THEN OrderVerdict(FALSE, "menor a minQty", 0, lot.cache, calls, "")
    ELSE OrderVerdict(TRUE, "Orden valida", adjusted_quantity, lot.cache, calls, "")

\* validate_order, lines 463-477: the checks on the adjusted quantity
CheckQuantity(adjusted_quantity, lot, calls) ==
    IF adjusted_quantity.num < lot.min_qty * adjusted_quantity.den
    THEN OrderVerdict(FALSE, "menor a minQty", 0, lot.cache, calls, "")
    ELSE IF BigCmp(BigOfNat(adjusted_quantity.num),
                   BigProduct(lot.max_qty, BigOfNat(adjusted_quantity.den))) = 1
    THEN OrderVerdict(FALSE, "mayor a maxQty", 0, lot.cache, calls, "")
    ELSE OrderVerdict(TRUE, "Orden valida", adjusted_quantity, lot.cache, calls, "")

\* validate_order, lines 460-461, once the LOT_SIZE parameters are known
ValidateWithLot(raw_quantity, lot, calls) ==
    IF lot.raised # ""
    THEN OrderVerdict(FALSE, "", 0, lot.cache, calls \o lot.calls, lot.raised)
    ELSE CheckQuantity(adjust_quantity_to_lot_size(raw_quantity, lot.step_size),
                       lot, calls \o lot.calls)

\* validate_order, lines 456-457, once the price lookup has answered
ValidateWithPrice(symbol, usdc_amount, mn, cp, replies) ==
    IF cp.raised # ""
    THEN OrderVerdict(FALSE, "", 0, mn.cache, mn.calls \o cp.calls, cp.raised)
    ELSE ValidateWithLot([num |-> usdc_amount * QtyUnitsPerToken, den |-> cp.price],
                         get_lot_size_info(symbol, mn.cache, replies.info2),
                         mn.calls \o cp.calls)

\* variant of validate_order that goes on to the price lookup whatever the
\* amount is
ValidateWithoutMinNotional(symbol, usdc_amount, mn, replies) ==
    IF mn.raised # ""
    THEN OrderVerdict(FALSE, "", 0, mn.cache, mn.calls, mn.raised)
    ELSE ValidateWithPrice(symbol, usdc_amount, mn,
                           get_current_price(symbol, replies.ticker), replies)

\* validate_order, lines 448-453, once min_notional is known
ValidateWithMinNotional(symbol, usdc_amount, mn, replies) ==
    IF mn.raised # ""
    THEN OrderVerdict(FALSE, "", 0, mn.cache, mn.calls, mn.raised)
    ELSE IF usdc_amount < mn.value
    THEN OrderVerdict(FALSE, "menor al minimo requerido", 0, mn.cache, mn.calls, "")
    ELSE ValidateWithPrice(symbol, usdc_amount, mn,
                           get_current_price(symbol, replies.ticker), replies)

\* replies = [info1, ticker, info2, order]: the exchange's answers to the
\* calls in the order the code makes them
validate_order(symbol, usdc_amount, cache, replies) ==
    ValidateWithMinNotional(symbol, usdc_amount,
                            get_min_notional(symbol, cache, replies.info1), replies)

\* variant of the handlers around order_market_buy that only catches
\* BinanceOrderException
HandlesOrderExceptionOnly(e) == e = "BinanceOrderException"

\* the except clauses of execute_market_buy: BinanceOrderException,
\* BinanceAPIException, and Exception, which every error answer is
HandledAroundOrder(e) ==
    e = "BinanceOrderException" \/ e = "BinanceAPIException" \/ e # ""

BuyResult(order, cache, calls, raised) ==
    [order |-> order, cache |-> cache, calls |-> calls, raised |-> raised]

OrderCall(symbol, usdc_amount, reply) ==
    [method |-> "order_market_buy", symbol |-> symbol,
     quoteOrderQty |-> FloatOfCents(usdc_amount),
     reply |-> IF reply.error = "" THEN "ok" ELSE reply.error]

\* variant of execute_market_buy that sends the order whatever the verdict is
PlaceOrderUnchecked(symbol, usdc_amount, v, reply) ==
    IF v.raised # ""
    THEN BuyResult(None, v.cache, v.calls, v.raised)
    ELSE IF reply.error = ""
    THEN BuyResult(Some([orderId |-> reply.orderId,
                         executedQty |-> 0,
                         cummulativeQuoteQty |-> usdc_amount]),
                   v.cache, Append(v.calls, OrderCall(symbol, usdc_amount, reply)), "")
    ELSE BuyResult(None, v.cache, Append(v.calls, OrderCall(symbol, usdc_amount, reply)), "")

\* execute_market_buy, lines 502-533; v is what validate_order returned
PlaceOrder(symbol, usdc_amount, v, reply) ==
    IF v.raised # ""
    THEN BuyResult(None, v.cache, v.calls, v.raised)
    ELSE IF ~v.is_valid
    THEN BuyResult(None, v.cache, v.calls, "")
    ELSE IF reply.error = ""
    THEN BuyResult(Some([orderId |-> reply.orderId,
                         executedQty |-> v.quantity.num,
                         cummulativeQuoteQty |-> usdc_amount]),
                   v.cache, Append(v.calls, OrderCall(symbol, usdc_amount, reply)), "")
    ELSE IF HandledAroundOrder(reply.error)
    THEN BuyResult(None, v.cache, Append(v.calls, OrderCall(symbol, usdc_amount, reply)), "")
    ELSE BuyResult(None, v.cache, Append(v.calls, OrderCall(symbol, usdc_amount, reply)),
                   reply.error)

execute_market_buy(token, usdc_amount, cache, replies) ==
    PlaceOrder(token \o BASE_ASSET, usdc_amount,
               validate_order(token \o BASE_ASSET, usdc_amount, cache, replies),
               replies.order)

\* float(adjusted_quantity) for a quantity in units
FloatOfUnits(quantity) ==
    [num |-> quantity.num, den |-> quantity.den * QtyUnitsPerToken]

SellCall(symbol, adjusted_quantity, reply) ==
    [method |-> "order_market_sell", symbol |-> symbol,
     quantity |-> FloatOfUnits(adjusted_quantity),
     reply |-> IF reply.error = "" THEN "ok" ELSE reply.error]

\* adjusted_quantity * current_price, in cents times QtyUnitsPerToken, over
\* the denominator of the quantity
EstimatedValue(adjusted_quantity, price) ==
    BigProduct(BigOfNat(adjusted_quantity.num), BigOfNat(price))

\* execute_market_sell, lines 574-601; the exchange fills the whole quantity
\* at the current price (cummulativeQuoteQty in cents, as limbs)
PlaceSell(symbol, adjusted_quantity, price, cache, calls, reply) ==
    IF reply.error = ""
    THEN BuyResult(Some([orderId |-> reply.orderId,
                         executedQty |-> adjusted_quantity.num,
                         cummulativeQuoteQty |->
                             BigStrip(BigDivRem(EstimatedValue(adjusted_quantity, price),
                                                QtyUnitsPerToken * adjusted_quantity.den).q)]),
                   cache, Append(calls, SellCall(symbol, adjusted_quantity, reply)), "")
    ELSE IF HandledAroundOrder(reply.error)
    THEN BuyResult(None, cache, Append(calls, SellCall(symbol, adjusted_quantity, reply)), "")
    ELSE BuyResult(None, cache, Append(calls, SellCall(symbol, adjusted_quantity, reply)),
                   reply.error)

\* variant of the sale that submits the order whatever its estimated value is
SellWithoutMinNotional(symbol, adjusted_quantity, price, mn, calls, reply) ==
    IF mn.raised # ""
    THEN BuyResult(None, mn.cache, calls \o mn.calls, mn.raised)
    ELSE PlaceSell(symbol, adjusted_quantity, price, mn.cache, calls \o mn.calls, reply)

\* execute_market_sell, lines 565-572, once min_notional is known
SellWithMinNotional(symbol, adjusted_quantity, price, mn, calls, reply) ==
    IF mn.raised # ""
    THEN BuyResult(None, mn.cache, calls \o mn.calls, mn.raised)
    ELSE IF BigCmp(EstimatedValue(adjusted_quantity, price),
                   BigMulSmall(BigOfNat(mn.value * adjusted_quantity.den),
                               QtyUnitsPerToken)) = -1
    THEN BuyResult(None, mn.cache, calls \o mn.calls, "")
    ELSE PlaceSell(symbol, adjusted_quantity, price, mn.cache, calls \o mn.calls, reply)

\* execute_market_sell, lines 564-566, once the price lookup has answered
SellWithPrice(symbol, adjusted_quantity, cache, cp, calls, replies) ==
    IF cp.raised # ""
    THEN BuyResult(None, cache, calls \o cp.calls, cp.raised)
    ELSE SellWithMinNotional(symbol, adjusted_quantity, cp.price,
                             get_min_notional(symbol, cache, replies.info2),
                             calls \o cp.calls, replies.order)

\* execute_market_sell, lines 559-564, once the quantity is adjusted
SellAdjusted(symbol, adjusted_quantity, lot, replies) ==
    IF adjusted_quantity.num < lot.min_qty * adjusted_quantity.den
    THEN BuyResult(None, lot.cache, lot.calls, "")
    ELSE SellWithPrice(symbol, adjusted_quantity, lot.cache,
                       get_current_price(symbol, replies.ticker), lot.calls, replies)

\* execute_market_sell, lines 556-557, once the LOT_SIZE parameters are known
SellWithLot(symbol, quantity, lot, replies) ==
    IF lot.raised # ""
    THEN BuyResult(None, lot.cache, lot.calls, lot.raised)
    ELSE SellAdjusted(symbol, adjust_quantity_to_lot_size(quantity, lot.step_size),
                      lot, replies)

\* replies = [info1, ticker, info2, order]: the exchange's answers to the
\* calls in the order the code makes them
execute_market_sell(token, quantity, cache, replies) ==
    SellWithLot(token \o BASE_ASSET, quantity,
                get_lot_size_info(token \o BASE_ASSET, cache, replies.info1), replies)

\* variant of the balance check that lets every amount through
validate_balance_unchecked(free_balance, total) == TRUE

\* TradingOrchestrator.validate_balance, given the balance the account reported
validate_balance(free_balance, total) ==
    ~(DecCmp(DecimalOfCents(free_balance), total) = -1)

(***************************************************************************)
(* Inputs of the buy flow                                                  *)
(***************************************************************************)
MaxRunAmounts == 2
MaxFaults == 2
MaxAllocs == 4
MaxPlaces == 15
MaxBuys == 4

\* the Decimal of a text that is cents/100 less one unit of its last decimal
JustBelow(cents, places) ==
    DecimalOfDigits(BigSub(BigProduct(BigOfNat(cents), BigPow10(places - 2)), <<1>>),
                    places)

\* what the user enters in get_investment_amount: 40.00, 80.00, ... USDC, and
\* 69.999999999999999 USDC
RunAmounts ==
    {DecimalOfCents(4000 * k) : k \in 1..MaxRunAmounts} \cup {JustBelow(7000, MaxPlaces)}
Balances == {4000 * k : k \in 1..MaxRunAmounts}

\* prices the ticker may report: 0.01, 100.00 and 100000.00 USDC per token
Prices == {1, 10000, 10000000}

InfoReplies == {"ok", "None", "BinanceAPIException"}
AccountReplies == {"ok", "BinanceAPIException"}
TickerReplies ==
    {[error |-> "", price |-> p] : p \in Prices}
    \cup {[error |-> "BinanceAPIException", price |-> 0]}
OrderReplies(order_id) ==
    {[error |-> "", orderId |-> order_id]}
    \cup {[error |-> e, orderId |-> 0] :
             e \in {"BinanceOrderException", "BinanceAPIException", "ConnectionError"}}

\* The answers to the calls one execute_market_buy makes for a symbol.  A
\* call that is not made has no answer (written "ok"): no info request when
\* the symbol is cached, no second info request when the first one filled
\* the cache, no order when the price lookup failed.
Replies(symbol, cache, order_id) ==
    {r \in [info1 : InfoReplies, ticker : TickerReplies, info2 : InfoReplies,
            order : OrderReplies(order_id)] :
        /\ symbol \in DOMAIN cache => r.info1 = "ok"
        /\ r.info1 = "ok" => r.info2 = "ok"
        /\ r.ticker.error # "" => r.order.error = ""}

\* answers that were not a normal one
FaultCount(calls) == Cardinality({i \in DOMAIN calls : calls[i].reply # "ok"})

OrderCalls(calls) == {i \in DOMAIN calls : calls[i].method = "order_market_buy"}

CallsOf(calls, method) == {i \in DOMAIN calls : calls[i].method = method}

\* In the flow the user skips no category, the first one, the last one, or
\* all.  A category that is not skipped is given to its first option at
\* 100%; the last category of a strategy may also be given to its second
\* option at 100% or split between its first two options.
SkipSets(categories) ==
    {{}, {1}, {Len(categories)}, DOMAIN categories}

FlowAnswerKinds == {"first", "second", "split"}
FlowSplits == {30}

FlowAnswers(category, kind) ==
    IF kind = "first" \/ Len(category.options) < 2
    THEN {<<TokenSelection(category.options[1], 100)>>}
    ELSE IF kind = "second"
    THEN {<<TokenSelection(category.options[2], 100)>>}
    ELSE {<<TokenSelection(category.options[1], q),
            TokenSelection(category.options[2], 100 - q)>> : q \in FlowSplits}

RECURSIVE FlowChoicesFrom(_, _, _, _, _)
FlowChoicesFrom(categories, skipped, other, kind, i) ==
    IF i > Len(categories) THEN {<<>>}
    ELSE {<<c>> \o rest :
             c \in (IF i \in skipped THEN {<<>>}
                    ELSE FlowAnswers(categories[i], IF i = other THEN kind ELSE "first")),
             rest \in FlowChoicesFrom(categories, skipped, other, kind, i + 1)}

FlowChoices(categories) ==
    UNION {FlowChoicesFrom(categories, skipped, other, kind, 1) :
           <<skipped, other, kind>> \in
               SkipSets(categories) \X {Len(categories)} \X FlowAnswerKinds}

RECURSIVE FlowChoicesPerStrategy(_, _)
FlowChoicesPerStrategy(keys, k) ==
    IF k > Len(keys) THEN {<<>>}
    ELSE {<<c>> \o rest : c \in FlowChoices(get_strategies[keys[k]].categories),
                          rest \in FlowChoicesPerStrategy(keys, k + 1)}

\* the tokens a run with these answers sends to the exchange
TokensToBuy(chosen) ==
    {chosen[k][i][j].token :
        <<k, i, j>> \in {x \in (DOMAIN chosen) \X (1..5) \X (1..2) :
                            /\ x[2] \in DOMAIN chosen[x[1]]
                            /\ x[3] \in DOMAIN chosen[x[1]][x[2]]}}
    \ {"USDC"}

\* the answers of a run, one list per strategy; runs that would buy more
\* than MaxBuys tokens are left out
FlowSelections(keys) ==
    {chosen \in FlowChoicesPerStrategy(keys, 1) :
        Cardinality(TokensToBuy(chosen)) <= MaxBuys}

SelectedStrategies(keys) == [k \in DOMAIN keys |-> get_strategies[keys[k]]]

(***************************************************************************)
(* Spec: TradingOrchestrator.run, the buy flow                             *)
(***************************************************************************)
Init ==
    /\ pc = "get_investment_amount"
    /\ total_amount = DecimalOfCents(0)
    /\ balance \in Balances
    /\ mode = ""
    /\ strategy_keys = <<>>
    /\ selections = <<>>
    /\ allocations = <<>>
    /\ consolidated = <<>>
    /\ idx = 0
    /\ results = EmptyDict
    /\ symbol_info_cache = EmptyDict
    /\ exchange_calls = <<>>
    /\ error = ""
    /\ args = <<>>
    /\ ret = <<>>
    /\ balances = <<>>
    /\ tokens_to_sell = <<>>
    /\ confirmed = ""

\* run, line 1380
GetInvestmentAmount ==
    /\ pc = "get_investment_amount"
    /\ total_amount' \in RunAmounts
    /\ pc' = "validate_balance"
    /\ UNCHANGED <<balance, mode, strategy_keys, selections, allocations, consolidated,
                   idx, results, symbol_info_cache, exchange_calls, error>>
    /\ UNCHANGED <<args, ret, balances, tokens_to_sell>>
    /\ UNCHANGED confirmed

\* run, lines 1384-1386, with validate_balance and get_usdc_balance
ValidateBalance ==
    /\ pc = "validate_balance"
    /\ \E reply \in AccountReplies :
         /\ exchange_calls' = Append(exchange_calls,
                [method |-> "get_account", symbol |-> "", reply |-> reply])
         /\ IF reply # "ok"
            THEN pc' = "raised" /\ error' = reply
            ELSE /\ error' = error
                 /\ pc' = IF validate_balance(balance, total_amount)
                          THEN "select_strategy_mode" ELSE "returned"
    /\ UNCHANGED <<total_amount, balance, mode, strategy_keys, selections, allocations,
                   consolidated, idx, results, symbol_info_cache>>
    /\ UNCHANGED <<args, ret, balances, tokens_to_sell>>
    /\ UNCHANGED confirmed

\* run, line 1389, with UserInterface.select_strategy_mode
SelectStrategyMode ==
    /\ pc = "select_strategy_mode"
    /\ \E choice \in 1..3 :
         IF choice = 3
         THEN mode' = "combined" /\ strategy_keys' = <<"moderada", "conservadora">>
         ELSE mode' = "single" /\ strategy_keys' = << <<"moderada", "conservadora">>[choice] >>
    /\ pc' = "calculate_allocations"
    /\ UNCHANGED <<total_amount, balance, selections, allocations, consolidated, idx,
                   results, symbol_info_cache, exchange_calls, error>>
    /\ UNCHANGED <<args, ret, balances, tokens_to_sell>>
    /\ UNCHANGED confirmed

\* run, lines 1392-1399; the user's answers are asked while the allocations
\* are calculated
CalculateAllocations ==
    /\ pc = "calculate_allocations"
    /\ mode # ""
    /\ \E chosen \in FlowSelections(strategy_keys) :
         /\ selections' = chosen
         /\ allocations' =
              IF mode = "combined"
              THEN calculate_combined_allocations(SelectedStrategies(strategy_keys),
                                                  total_amount, chosen)
              ELSE calculate_allocations(SelectedStrategies(strategy_keys)[1],
                                         total_amount, chosen[1])
    /\ pc' = "confirm_execution"
    /\ UNCHANGED <<total_amount, balance, mode, strategy_keys, consolidated, idx,
                   results, symbol_info_cache, exchange_calls, error>>
    /\ UNCHANGED <<args, ret, balances, tokens_to_sell>>
    /\ UNCHANGED confirmed

\* variant of the gate that goes on whatever the user answered
ProceedsAlways(confirm) == TRUE

\* the gate of run (lines 1402-1405) and of run_take_profit (1452-1455): the
\* flow goes on only when the confirmation returned True
ProceedsAfter(confirm) == confirm

\* run, lines 1402-1405, with UserInterface.confirm_execution
ConfirmExecution ==
    /\ pc = "confirm_execution"
    /\ \E confirm \in BOOLEAN :
         /\ confirmed' = IF confirm THEN "yes" ELSE "no"
         /\ pc' = IF ProceedsAfter(confirm) THEN "consolidate_allocations" ELSE "returned"
    /\ UNCHANGED <<total_amount, balance, mode, strategy_keys, selections, allocations,
                   consolidated, idx, results, symbol_info_cache, exchange_calls, error>>
    /\ UNCHANGED <<args, ret, balances, tokens_to_sell>>

\* run, line 1408, and the start of execute_orders
ConsolidateAllocations ==
    /\ pc = "consolidate_allocations"
    /\ mode # ""
    /\ consolidated' = consolidate_allocations(allocations)
    /\ idx' = 1
    /\ results' = EmptyDict
    /\ pc' = "execute_orders"
    /\ UNCHANGED <<total_amount, balance, mode, strategy_keys, selections, allocations,
                   symbol_info_cache, exchange_calls, error>>
    /\ UNCHANGED <<args, ret, balances, tokens_to_sell>>
    /\ UNCHANGED confirmed

\* variant of the test of line 1299 that sends every token to the exchange
TradesEveryToken(token) == FALSE

\* execute_orders, line 1299
IsBaseAssetEntry(token) == token = "USDC"

\* execute_orders, lines 1299-1309: one pass of the loop on the base asset
KeepBaseAsset ==
    /\ pc = "execute_orders"
    /\ idx <= Len(consolidated)
    /\ IsBaseAssetEntry(consolidated[idx][1])
    /\ results' = DictPut(results, consolidated[idx][1],
                      [status |-> "skipped", reason |-> "Base asset - no trade needed",
                       amount |-> FloatOfCents(consolidated[idx][2])])
    /\ idx' = idx + 1
    /\ UNCHANGED <<pc, total_amount, balance, mode, strategy_keys, selections, allocations,
                   consolidated, symbol_info_cache, exchange_calls, error>>
    /\ UNCHANGED <<args, ret, balances, tokens_to_sell>>
    /\ UNCHANGED confirmed

\* variant of the loop body that stays on an allocation whose order failed,
\* to try it again
RecordOutcomeRetrying(token, amount, r) ==
    /\ FaultCount(exchange_calls \o r.calls) <= MaxFaults
    /\ exchange_calls' = exchange_calls \o r.calls
    /\ symbol_info_cache' = r.cache
    /\ IF r.raised # ""
       THEN /\ pc' = "raised"
            /\ error' = r.raised
            /\ UNCHANGED <<idx, results>>
       ELSE IF r.order = None /\ OrderCalls(r.calls) # {}
       THEN UNCHANGED <<pc, error, idx, results>>
       ELSE /\ results' = DictPut(results, token,
                   IF r.order # None
                   THEN [status |-> "success",
                         order_id |-> r.order[1].orderId,
                         executed_qty |-> r.order[1].executedQty,
                         spent_usdc |-> r.order[1].cummulativeQuoteQty]
                   ELSE [status |-> "failed", amount |-> FloatOfCents(amount)])
            /\ idx' = idx + 1
            /\ UNCHANGED <<pc, error>>

\* execute_orders, lines 1314-1325, given what execute_market_buy returned
\* or raised; an exception that leaves execute_market_buy leaves
\* execute_orders and run
RecordOutcome(token, amount, r) ==
    /\ FaultCount(exchange_calls \o r.calls) <= MaxFaults
    /\ exchange_calls' = exchange_calls \o r.calls
    /\ symbol_info_cache' = r.cache
    /\ IF r.raised # ""
       THEN /\ pc' = "raised"
            /\ error' = r.raised
            /\ UNCHANGED <<idx, results>>
       ELSE /\ results' = DictPut(results, token,
                   IF r.order # None
                   THEN [status |-> "success",
                         order_id |-> r.order[1].orderId,
                         executed_qty |-> r.order[1].executedQty,
                         spent_usdc |-> r.order[1].cummulativeQuoteQty]
                   ELSE [status |-> "failed", amount |-> FloatOfCents(amount)])
            /\ idx' = idx + 1
            /\ UNCHANGED <<pc, error>>

\* execute_market_buy as execute_orders calls it at line 1312: v is what
\* validate_order returned at line 500, kept in ret
BuyWithVerdict(token, amount, v, reply) ==
    /\ ret' = v
    /\ RecordOutcome(token, amount, PlaceOrder(token \o BASE_ASSET, amount, v, reply))

\* execute_orders, lines 1312-1325: one pass of the loop on a token to buy
BuyToken ==
    /\ pc = "execute_orders"
    /\ idx <= Len(consolidated)
    /\ ~IsBaseAssetEntry(consolidated[idx][1])
    /\ \E replies \in Replies(consolidated[idx][1] \o BASE_ASSET, symbol_info_cache,
                             Cardinality(OrderCalls(exchange_calls)) + 1) :
         BuyWithVerdict(consolidated[idx][1], consolidated[idx][2],
                        validate_order(consolidated[idx][1] \o BASE_ASSET,
                                       consolidated[idx][2], symbol_info_cache, replies),
                        replies.order)
    /\ UNCHANGED <<total_amount, balance, mode, strategy_keys, selections, allocations,
                   consolidated, args, balances, tokens_to_sell>>
    /\ UNCHANGED confirmed

\* execute_orders returns, run prints the summary (lines 1327, 1414)
PrintSummary ==
    /\ pc = "execute_orders"
    /\ idx > Len(consolidated)
    /\ pc' = "returned"
    /\ UNCHANGED <<total_amount, balance, mode, strategy_keys, selections, allocations,
                   consolidated, idx, results, symbol_info_cache, exchange_calls, error>>
    /\ UNCHANGED <<args, ret, balances, tokens_to_sell>>
    /\ UNCHANGED confirmed

Next ==
    \/ GetInvestmentAmount
    \/ ValidateBalance
    \/ SelectStrategyMode
    \/ CalculateAllocations
    \/ ConfirmExecution
    \/ ConsolidateAllocations
    \/ KeepBaseAsset
    \/ BuyToken
    \/ PrintSummary

Spec == Init /\ [][Next]_vars

(***************************************************************************)
(* SpecAlloc: calculate_allocations as a function of its inputs            *)
(***************************************************************************)
InitAlloc ==
    /\ pc = "calculate_allocations"
    /\ total_amount \in TotalAmounts
    /\ \E k \in StrategyKeys :
         /\ strategy_keys = <<k>>
         /\ \E c \in UserChoices(get_strategies[k].categories, 1) : selections = <<c>>
    /\ allocations = <<>>
    /\ balance = 0
    /\ mode = ""
    /\ consolidated = <<>>
    /\ idx = 0
    /\ results = EmptyDict
    /\ symbol_info_cache = EmptyDict
    /\ exchange_calls = <<>>
    /\ error = ""
    /\ args = <<>>
    /\ ret = <<>>
    /\ balances = <<>>
    /\ tokens_to_sell = <<>>
    /\ confirmed = ""

AllocStep ==
    /\ pc = "calculate_allocations"
    /\ mode = ""
    /\ allocations' = calculate_allocations(get_strategies[strategy_keys[1]],
                                            DecimalOfCents(total_amount), selections[1])
    /\ pc' = "calculated"
    /\ UNCHANGED <<total_amount, balance, mode, strategy_keys, selections, consolidated,
                   idx, results, symbol_info_cache, exchange_calls, error>>
    /\ UNCHANGED <<args, ret, balances, tokens_to_sell>>
    /\ UNCHANGED confirmed

NextAlloc == AllocStep

SpecAlloc == InitAlloc /\ [][NextAlloc]_vars

(***************************************************************************)
(* SpecCons: consolidate_allocations as a function of its input            *)
(***************************************************************************)
ConsTokens == {"BTC", "ETH", "USDC"}
ConsAmounts == {300, 500, 1000}

RECURSIVE AllocationLists(_)
AllocationLists(n) ==
    IF n = 0 THEN {<<>>}
    ELSE AllocationLists(n - 1)
         \cup {Append(l, <<t, a>>) :
                  l \in {x \in AllocationLists(n - 1) : Len(x) = n - 1},
                  t \in ConsTokens, a \in ConsAmounts}

InitCons ==
    /\ pc = "consolidate_allocations"
    /\ allocations \in AllocationLists(MaxAllocs)
    /\ total_amount = 0
    /\ balance = 0
    /\ mode = ""
    /\ strategy_keys = <<>>
    /\ selections = <<>>
    /\ consolidated = <<>>
    /\ idx = 0
    /\ results = EmptyDict
    /\ symbol_info_cache = EmptyDict
    /\ exchange_calls = <<>>
    /\ error = ""
    /\ args = <<>>
    /\ ret = <<>>
    /\ balances = <<>>
    /\ tokens_to_sell = <<>>
    /\ confirmed = ""

ConsStep ==
    /\ pc = "consolidate_allocations"
    /\ mode = ""
    /\ consolidated' = consolidate_allocations(allocations)
    /\ pc' = "consolidated"
    /\ UNCHANGED <<total_amount, balance, mode, strategy_keys, selections, allocations,
                   idx, results, symbol_info_cache, exchange_calls, error>>
    /\ UNCHANGED <<args, ret, balances, tokens_to_sell>>
    /\ UNCHANGED confirmed

NextCons == ConsStep

SpecCons == InitCons /\ [][NextCons]_vars

(***************************************************************************)
(* SpecLot: adjust_quantity_to_lot_size as a function of its inputs.  A    *)
(* quantity is a fraction of units of 0.00001 token (what usdc_amount /    *)
(* current_price gives), a step size a whole number of units.              *)
(***************************************************************************)
MaxLotNum == 12

LotQuantities ==
    {[num |-> n, den |-> d] : n \in (0..MaxLotNum) \cup {100090, 123456}, d \in {1, 3}}
LotSteps == {0, 1, 3, 10, 100}

\* the variables of the orchestrator's run, which a function run on its own
\* leaves as they are before the run
run_vars == <<total_amount, balance, mode, strategy_keys, selections, allocations,
              consolidated, idx, results, symbol_info_cache, exchange_calls, error,
              balances, tokens_to_sell, confirmed>>

NoRun ==
    /\ total_amount = 0
    /\ balance = 0
    /\ mode = ""
    /\ strategy_keys = <<>>
    /\ selections = <<>>
    /\ allocations = <<>>
    /\ consolidated = <<>>
    /\ idx = 0
    /\ results = EmptyDict
    /\ symbol_info_cache = EmptyDict
    /\ exchange_calls = <<>>
    /\ error = ""
    /\ balances = <<>>
    /\ tokens_to_sell = <<>>
    /\ confirmed = ""

InitLot ==
    /\ pc = "adjust_quantity_to_lot_size"
    /\ args \in [quantity : LotQuantities, step_size : LotSteps]
    /\ ret = <<>>
    /\ NoRun

LotStep ==
    /\ pc = "adjust_quantity_to_lot_size"
    /\ ret' = adjust_quantity_to_lot_size(args.quantity, args.step_size)
    /\ pc' = "adjusted"
    /\ UNCHANGED <<run_vars, args>>

NextLot == LotStep

SpecLot == InitLot /\ [][NextLot]_vars

(***************************************************************************)
(* SpecBuy: execute_market_buy run on its own, in two steps: the call of   *)
(* validate_order (line 500), then what execute_market_buy does with the   *)
(* verdict (lines 502-533).                                                *)
(***************************************************************************)
BuyAmounts == {400, 500, 900, 1000, 4000}
BuyCaches == {EmptyDict, DictPut(EmptyDict, "BTCUSDC", ExchangeSymbolInfo("BTCUSDC"))}

InitBuy ==
    /\ pc = "validate_order"
    /\ \E usdc_amount \in BuyAmounts, cache \in BuyCaches :
         \E replies \in Replies("BTCUSDC", cache, 1) :
            args = [token |-> "BTC", usdc_amount |-> usdc_amount,
                    cache |-> cache, replies |-> replies]
    /\ ret = <<>>
    /\ NoRun

ValidateOrderStep ==
    /\ pc = "validate_order"
    /\ ret' = validate_order(args.token \o BASE_ASSET, args.usdc_amount,
                             args.cache, args.replies)
    /\ pc' = "validated"
    /\ UNCHANGED <<run_vars, args>>

PlaceOrderStep ==
    /\ pc = "validated"
    /\ ret' = PlaceOrder(args.token \o BASE_ASSET, args.usdc_amount, ret,
                         args.replies.order)
    /\ pc' = "execute_market_buy returned"
    /\ UNCHANGED <<run_vars, args>>

NextBuy == ValidateOrderStep \/ PlaceOrderStep

SpecBuy == InitBuy /\ [][NextBuy]_vars

(***************************************************************************)
(* SpecSellOrder: execute_market_sell run on its own.  Quantities are in   *)
(* units of 0.00001 token.                                                 *)
(***************************************************************************)
SellQuantities ==
    {[num |-> n, den |-> 1] : n \in {5, 50, 1005, 100000, 123456, 200000000}}

InitSellOrder ==
    /\ pc = "execute_market_sell"
    /\ \E quantity \in SellQuantities, cache \in BuyCaches :
         \E replies \in Replies("BTCUSDC", cache, 1) :
            args = [token |-> "BTC", quantity |-> quantity,
                    cache |-> cache, replies |-> replies]
    /\ ret = <<>>
    /\ NoRun

SellOrderStep ==
    /\ pc = "execute_market_sell"
    /\ ret' = execute_market_sell(args.token, args.quantity, args.cache, args.replies)
    /\ pc' = "execute_market_sell returned"
    /\ UNCHANGED <<run_vars, args>>

NextSellOrder == SellOrderStep

SpecSellOrder == InitSellOrder /\ [][NextSellOrder]_vars

(***************************************************************************)
(* SpecComb: calculate_combined_allocations as a function of the list of   *)
(* strategies, the total and the user's answers.  ret keeps                *)
(* amount_per_strategy.                                                    *)
(***************************************************************************)
MaxStrategies == 3

CombTotals == {1, 2, 3, 5, 9999, 10000, 10001}

RECURSIVE KeyLists(_)
KeyLists(n) ==
    IF n = 0 THEN {<<>>}
    ELSE {<<k>> \o rest : k \in StrategyKeys, rest \in KeyLists(n - 1)}

InitComb ==
    /\ pc = "calculate_combined_allocations"
    /\ total_amount \in CombTotals
    /\ \E n \in 1..MaxStrategies :
         \E keys \in KeyLists(n) :
            /\ strategy_keys = keys
            /\ selections \in FlowChoicesPerStrategy(keys, 1)
    /\ allocations = <<>>
    /\ balance = 0
    /\ mode = "combined"
    /\ consolidated = <<>>
    /\ idx = 0
    /\ results = EmptyDict
    /\ symbol_info_cache = EmptyDict
    /\ exchange_calls = <<>>
    /\ error = ""
    /\ args = <<>>
    /\ ret = <<>>
    /\ balances = <<>>
    /\ tokens_to_sell = <<>>
    /\ confirmed = ""

CombStep ==
    /\ pc = "calculate_combined_allocations"
    /\ ret' = amount_per_strategy(SelectedStrategies(strategy_keys),
                                  DecimalOfCents(total_amount))
    /\ allocations' = calculate_combined_allocations(SelectedStrategies(strategy_keys),
                                                     DecimalOfCents(total_amount),
                                                     selections)
    /\ pc' = "combined"
    /\ UNCHANGED <<total_amount, balance, mode, strategy_keys, selections, consolidated,
                   idx, results, symbol_info_cache, exchange_calls, error, args,
                   balances, tokens_to_sell>>
    /\ UNCHANGED confirmed

NextComb == CombStep

SpecComb == InitComb /\ [][NextComb]_vars

(***************************************************************************)
(* SpecMain: TradingOrchestrator.run_main, which runs the buy flow or the  *)
(* take-profit flow.  The account the exchange reports and its answers to  *)
(* the lookups of get_spot_balances_with_value are inputs of the           *)
(* take-profit flow: a holding has its asset, its free quantity in units,  *)
(* the price it was valued at and its can_sell flag.                       *)
(***************************************************************************)
MaxPicks == 2

Holding(asset, free, price, can_sell) ==
    [asset |-> asset, free |-> [num |-> free, den |-> 1], price |-> price,
     can_sell |-> can_sell]

\* what client.get_account reports: 1.23456 BTC, 20 USDT, 1 ETH, 0.005 ADA in
\* open orders only, an emptied XRP wallet, 50 USDC
Wallet(asset, free, locked) == [asset |-> asset, free |-> free, locked |-> locked]

AccountHoldings ==
    { <<>>,
      << Wallet("USDC", 5000000, 0) >>,
      << Wallet("BTC", 123456, 0), Wallet("USDT", 2000000, 0), Wallet("ETH", 100000, 0),
         Wallet("ADA", 0, 500), Wallet("XRP", 0, 0), Wallet("USDC", 5000000, 0) >> }

HasTotal(b) == b.free + b.locked > 0

\* get_all_spot_balances, lines 215-242
get_all_spot_balances(account, reply) ==
    [list |-> IF reply = "ok" THEN SelectSeq(account, HasTotal) ELSE <<>>,
     calls |-> <<[method |-> "get_account", symbol |-> "", reply |-> reply]>>,
     raised |-> IF reply = "ok" THEN "" ELSE reply]

Stablecoins == {"USDC", "USDT", "BUSD", "TUSD", "USDP", "FDUSD"}

\* the balances whose value is asked of the exchange
IsPriced(b) == b.asset # BASE_ASSET /\ b.asset \notin Stablecoins /\ b.free > 0

\* what the exchange answers while one balance is valued
ListingTickers ==
    {[error |-> "", price |-> p] : p \in {1, 10000}}
    \cup {[error |-> "BinanceAPIException", price |-> 0]}

DefaultListingReply ==
    [ticker |-> [error |-> "", price |-> 10000], info |-> "ok",
     usdt |-> [error |-> "", price |-> 10000]]

ListingReplies ==
    {r \in [ticker : ListingTickers, info : {"ok", "None"}, usdt : ListingTickers] :
        /\ r.usdt.price # 1
        /\ r.ticker.error = "" => r.usdt = DefaultListingReply.usdt
        /\ r.ticker.error # "" => r.info = "ok"}

ListingRepliesFor(held) ==
    {f \in [DOMAIN held -> ListingReplies] :
        \A i \in DOMAIN held : ~IsPriced(held[i]) => f[i] = DefaultListingReply}

Listing(list, cache, calls) == [list |-> list, cache |-> cache, calls |-> calls]

\* lines 300-315: cp is what the price lookup of the USDT pair returned
ValuedByUsdt(b, acc, cp) ==
    Listing(Append(acc.list,
                   Holding(b.asset, b.free, IF cp.raised = "" THEN cp.price ELSE 0, FALSE)),
            acc.cache, acc.calls \o cp.calls)

\* lines 287-298: mn is what get_min_notional returned
ValuedWithMinNotional(b, acc, mn, price, reply) ==
    IF mn.raised # ""
    THEN ValuedByUsdt(b, Listing(acc.list, mn.cache, acc.calls \o mn.calls),
                      get_current_price(b.asset \o "USDT", reply.usdt))
    ELSE Listing(Append(acc.list,
                        Holding(b.asset, b.free, price,
                                BigCmp(EstimatedValue([num |-> b.free, den |-> 1], price),
                                       BigMulSmall(BigOfNat(mn.value), QtyUnitsPerToken))
                                  # -1)),
                 mn.cache, acc.calls \o mn.calls)

\* lines 282-301: cp is what get_current_price returned for the USDC pair
ValuedWithPrice(b, acc, cp, reply) ==
    IF cp.raised # ""
    THEN ValuedByUsdt(b, Listing(acc.list, acc.cache, acc.calls \o cp.calls),
                      get_current_price(b.asset \o "USDT", reply.usdt))
    ELSE ValuedWithMinNotional(
             b, Listing(acc.list, acc.cache, acc.calls \o cp.calls),
             MinNotionalOf(get_symbol_info(b.asset \o BASE_ASSET, acc.cache, reply.info)),
             cp.price, reply)

\* lines 258-315: one pass of the loop over the balances
ValuedBalance(b, acc, reply) ==
    IF b.asset = BASE_ASSET \/ b.asset \in Stablecoins
    THEN Listing(Append(acc.list, Holding(b.asset, b.free, 100, FALSE)),
                 acc.cache, acc.calls)
    ELSE IF b.free <= 0
    THEN acc
    ELSE ValuedWithPrice(b, acc, get_current_price(b.asset \o BASE_ASSET, reply.ticker),
                         reply)

RECURSIVE ValuedBalances(_, _, _, _)
ValuedBalances(held, replies, i, acc) ==
    IF i > Len(held)
    THEN acc
    ELSE ValuedBalances(held, replies, i + 1, ValuedBalance(held[i], acc, replies[i]))

\* balance["usdc_value"] in units of 0.00001 cent
UsdcValue(b) == EstimatedValue(b.free, b.price)

\* line 318: list.sort(key=usdc_value, reverse=True), equal values keep their order
InsertByValue(sorted, x) ==
    LET n == Cardinality({k \in DOMAIN sorted :
                             BigCmp(UsdcValue(sorted[k]), UsdcValue(x)) # -1})
    IN  SubSeq(sorted, 1, n) \o <<x>> \o SubSeq(sorted, n + 1, Len(sorted))

RECURSIVE SortByValue(_, _, _)
SortByValue(list, i, sorted) ==
    IF i > Len(list)
    THEN sorted
    ELSE SortByValue(list, i + 1, InsertByValue(sorted, list[i]))

\* get_spot_balances_with_value, lines 244-320: held is what get_all_spot_balances
\* returned
get_spot_balances_with_value(held, replies, cache, calls) ==
    LET acc == ValuedBalances(held, replies, 1, Listing(<<>>, cache, calls))
    IN  Listing(SortByValue(acc.list, 1, <<>>), acc.cache, acc.calls)

\* float(balance["usdc_value"]), free * price in USDC
FloatOfUsdcValue(b) ==
    [num |-> b.free.num * b.price, den |-> b.free.den * QtyUnitsPerToken * 100]

\* the mark is ignored
SelectsUnmarked(b) == TRUE

\* select_tokens_to_sell, line 990: b for b in balances if b.get("can_sell", False)
IsSellable(b) == b.can_sell

RECURSIVE PickIndices(_, _)
PickIndices(sellable, indices) ==
    IF indices = <<>> THEN <<>>
    ELSE (IF Head(indices) \in 1..Len(sellable) THEN <<sellable[Head(indices)]>> ELSE <<>>)
         \o PickIndices(sellable, Tail(indices))

\* choice.key is "C", "A", or "" for numbers: one index, or indices separated
\* by commas
select_tokens_to_sell(listed, choice) ==
    IF SelectSeq(listed, IsSellable) = <<>> THEN <<>>
    ELSE IF choice.key = "C" THEN <<>>
    ELSE IF choice.key = "A" THEN SelectSeq(listed, IsSellable)
    ELSE PickIndices(SelectSeq(listed, IsSellable), choice.indices)

\* an answer with no valid index is asked again
SellChoices(listed) ==
    {[key |-> k, indices |-> <<>>] : k \in {"C", "A"}}
    \cup {c \in {[key |-> "", indices |-> i] :
                    i \in UNION {[1..n -> 1..(Len(listed) + 1)] : n \in 1..MaxPicks}} :
             SelectSeq(listed, IsSellable) = <<>>
             \/ PickIndices(SelectSeq(listed, IsSellable), c.indices) # <<>>}

InitMain ==
    /\ pc = "select_main_action"
    /\ total_amount = DecimalOfCents(0)
    /\ balance \in Balances
    /\ mode = ""
    /\ strategy_keys = <<>>
    /\ selections = <<>>
    /\ allocations = <<>>
    /\ consolidated = <<>>
    /\ idx = 0
    /\ results = EmptyDict
    /\ symbol_info_cache = EmptyDict
    /\ exchange_calls = <<>>
    /\ error = ""
    /\ args = <<>>
    /\ ret = <<>>
    /\ balances = <<>>
    /\ tokens_to_sell = <<>>
    /\ confirmed = ""

\* run_main, lines 1553-1558
SelectMainAction ==
    /\ pc = "select_main_action"
    /\ \E action \in {"buy", "take_profit"} :
         pc' = IF action = "buy" THEN "get_investment_amount"
               ELSE "get_spot_balances_with_value"
    /\ UNCHANGED <<run_vars, args, ret>>

\* run_take_profit, lines 1434-1438
GetSpotBalances ==
    /\ pc = "get_spot_balances_with_value"
    /\ \E account \in AccountHoldings, reply \in AccountReplies :
         LET held == get_all_spot_balances(account, reply)
         IN  IF held.raised # ""
             THEN /\ pc' = "raised"
                  /\ error' = held.raised
                  /\ exchange_calls' = exchange_calls \o held.calls
                  /\ UNCHANGED <<balances, symbol_info_cache>>
             ELSE \E replies \in ListingRepliesFor(held.list) :
                    LET r == get_spot_balances_with_value(
                                 held.list, replies, symbol_info_cache,
                                 exchange_calls \o held.calls)
                    IN  /\ FaultCount(r.calls) <= MaxFaults
                        /\ balances' = r.list
                        /\ symbol_info_cache' = r.cache
                        /\ exchange_calls' = r.calls
                        /\ error' = error
                        /\ pc' = IF r.list = <<>>
                                 THEN "returned" ELSE "select_tokens_to_sell"
    /\ UNCHANGED <<total_amount, balance, mode, strategy_keys, selections, allocations,
                   consolidated, idx, results, args, ret, tokens_to_sell>>
    /\ UNCHANGED confirmed

\* run_take_profit, lines 1441-1449
SelectTokensToSell ==
    /\ pc = "select_tokens_to_sell"
    /\ \E choice \in SellChoices(balances) :
         tokens_to_sell' = select_tokens_to_sell(balances, choice)
    /\ pc' = IF tokens_to_sell' = <<>> THEN "returned" ELSE "confirm_take_profit"
    /\ UNCHANGED <<total_amount, balance, mode, strategy_keys, selections, allocations,
                   consolidated, idx, results, symbol_info_cache, exchange_calls, error,
                   args, ret, balances>>
    /\ UNCHANGED confirmed

\* run_take_profit, lines 1452-1458, and the start of execute_sell_orders
ConfirmTakeProfit ==
    /\ pc = "confirm_take_profit"
    /\ \E confirm \in BOOLEAN :
         /\ confirmed' = IF confirm THEN "yes" ELSE "no"
         /\ IF ProceedsAfter(confirm)
            THEN pc' = "execute_sell_orders" /\ idx' = 1 /\ results' = EmptyDict
            ELSE pc' = "returned" /\ UNCHANGED <<idx, results>>
    /\ UNCHANGED <<total_amount, balance, mode, strategy_keys, selections, allocations,
                   consolidated, symbol_info_cache, exchange_calls, error, args, ret,
                   balances, tokens_to_sell>>

\* execute_sell_orders, lines 1485-1497, given what execute_market_sell
\* returned or raised; an exception that leaves execute_market_sell leaves
\* execute_sell_orders and run_take_profit
RecordSale(b, r) ==
    /\ FaultCount(exchange_calls \o r.calls) <= MaxFaults
    /\ exchange_calls' = exchange_calls \o r.calls
    /\ symbol_info_cache' = r.cache
    /\ IF r.raised # ""
       THEN /\ pc' = "raised"
            /\ error' = r.raised
            /\ UNCHANGED <<idx, results>>
       ELSE /\ results' = DictPut(results, b.asset,
                   IF r.order # None
                   THEN [status |-> "success",
                         order_id |-> r.order[1].orderId,
                         sold_qty |-> r.order[1].executedQty,
                         received_usdc |-> r.order[1].cummulativeQuoteQty]
                   ELSE [status |-> "failed", quantity |-> FloatOfUnits(b.free),
                         estimated_value |-> FloatOfUsdcValue(b)])
            /\ idx' = idx + 1
            /\ UNCHANGED <<pc, error>>

\* execute_sell_orders, lines 1479-1497: one pass of the loop
SellToken ==
    /\ pc = "execute_sell_orders"
    /\ idx <= Len(tokens_to_sell)
    /\ \E replies \in Replies(tokens_to_sell[idx].asset \o BASE_ASSET, symbol_info_cache,
                             Cardinality(CallsOf(exchange_calls, "order_market_sell")) + 1) :
         RecordSale(tokens_to_sell[idx],
                    execute_market_sell(tokens_to_sell[idx].asset, tokens_to_sell[idx].free,
                                        symbol_info_cache, replies))
    /\ UNCHANGED <<total_amount, balance, mode, strategy_keys, selections, allocations,
                   consolidated, args, ret, balances, tokens_to_sell>>
    /\ UNCHANGED confirmed

\* execute_sell_orders returns, run_take_profit prints the summary (1499, 1461)
PrintSellSummary ==
    /\ pc = "execute_sell_orders"
    /\ idx > Len(tokens_to_sell)
    /\ pc' = "returned"
    /\ UNCHANGED <<run_vars, args, ret>>

NextSell ==
    \/ GetSpotBalances
    \/ SelectTokensToSell
    \/ ConfirmTakeProfit
    \/ SellToken
    \/ PrintSellSummary

NextMain == SelectMainAction \/ Next \/ NextSell

SpecMain == InitMain /\ [][NextMain]_vars

(***************************************************************************)
(* SpecCache: a series of get_symbol_info lookups on one BinanceTrader.    *)
(* args is the list of symbols looked up, ret the list of values returned. *)
(* The cache may already hold BTCUSDC with filters the exchange published  *)
(* earlier and has changed since.                                          *)
(***************************************************************************)
MaxLookups == 3

CacheSymbols == {"BTCUSDC", "ETHUSDC"}

EarlierCaches ==
    {EmptyDict,
     DictPut(EmptyDict, "BTCUSDC",
             [symbol |-> "BTCUSDC", minNotional |-> 700, minQty |-> 10,
              maxQty |-> BigOfNat(900000), stepSize |-> 5])}

InitCache ==
    /\ pc = "get_symbol_info"
    /\ args = <<>>
    /\ ret = <<>>
    /\ total_amount = 0
    /\ balance = 0
    /\ mode = ""
    /\ strategy_keys = <<>>
    /\ selections = <<>>
    /\ allocations = <<>>
    /\ consolidated = <<>>
    /\ idx = 0
    /\ results = EmptyDict
    /\ symbol_info_cache \in EarlierCaches
    /\ exchange_calls = <<>>
    /\ error = ""
    /\ balances = <<>>
    /\ tokens_to_sell = <<>>
    /\ confirmed = ""

\* r is what get_symbol_info returned
LookedUp(symbol, r) ==
    /\ args' = Append(args, symbol)
    /\ ret' = Append(ret, r.info)
    /\ symbol_info_cache' = r.cache
    /\ exchange_calls' = exchange_calls \o r.calls

\* a lookup that finds the symbol in the cache gets no answer from the
\* exchange (written "ok")
LookupStep ==
    /\ pc = "get_symbol_info"
    /\ Len(args) < MaxLookups
    /\ \E symbol \in CacheSymbols, reply \in InfoReplies :
         /\ symbol \in DOMAIN symbol_info_cache => reply = "ok"
         /\ LookedUp(symbol, get_symbol_info(symbol, symbol_info_cache, reply))
    /\ UNCHANGED <<pc, total_amount, balance, mode, strategy_keys, selections, allocations,
                   consolidated, idx, results, error, balances, tokens_to_sell, confirmed>>

NextCache == LookupStep

SpecCache == InitCache /\ [][NextCache]_vars

(***************************************************************************)
(* SpecSelect: the dialogue of UserInterface.select_tokens_for_category,   *)
(* one step per answer typed at a prompt.  Percentages are doubles: a      *)
(* mantissa m (a big natural below 2^53 once rounded) and a shift t for    *)
(* m * 2^(-t), or not-a-number, which float() reads from "nan".  args is   *)
(* the category with the locals available_options, remaining_percentage   *)
(* and selected_token; ret is selections.                                  *)
(***************************************************************************)
Double(m, t) == [nan |-> FALSE, m |-> m, t |-> t]

NaN == [nan |-> TRUE, m |-> <<>>, t |-> 0]

\* the bits of d beyond 53
RECURSIVE ExcessBits(_, _)
ExcessBits(d, k) ==
    IF BigCmp(d, BigMulPow(<<1>>, 2, 53 + k)) = -1 THEN k ELSE ExcessBits(d, k + 1)

\* the double nearest d * 2^(-t), ties to even; k is ExcessBits(d, 0)
RoundToDouble(d, t, k) ==
    IF k = 0 THEN Double(d, t)
    ELSE LET dr == BigDivRem(d, 2 ^ k)
             q  == BigStrip(dr.q)
         IN  Double(IF 2 * dr.r > 2 ^ k \/ (2 * dr.r = 2 ^ k /\ BigIsOdd(q))
                    THEN BigAddOne(q) ELSE q,
                    t - k)

\* the least s with num * 2^s >= den
RECURSIVE ShiftBelowOne(_, _, _)
ShiftBelowOne(num, den, s) ==
    IF num >= den THEN s ELSE ShiftBelowOne(2 * num, den, s + 1)

\* float(text) for the decimal numeral num / den
DoubleOfStr(num, den, s) ==
    IF num = 0 THEN Double(<<>>, 0)
    ELSE Double(FloatMantissa([num |-> num * 2 ^ s, den |-> den]),
                FloatShift([num |-> num * 2 ^ s, den |-> den]) + s)

Hundred == Double(<<100>>, 0)

\* x * 2^t as a big natural
Aligned(x, t) == BigMulPow(x.m, 2, t - x.t)

MaxShift(x, y) == IF x.t > y.t THEN x.t ELSE y.t

\* x > y, False when either is not a number
DoubleGreater(x, y) ==
    /\ ~x.nan
    /\ ~y.nan
    /\ BigCmp(Aligned(x, MaxShift(x, y)), Aligned(y, MaxShift(x, y))) = 1

\* x - y for x >= y
DoubleMinusAt(x, y, d, t) == RoundToDouble(d, t, ExcessBits(d, 0))

DoubleMinus(x, y) ==
    IF x.nan \/ y.nan THEN NaN
    ELSE DoubleMinusAt(x, y, BigSub(Aligned(x, MaxShift(x, y)), Aligned(y, MaxShift(x, y))),
                       MaxShift(x, y))

DoublePlus(x, y) ==
    IF x.nan \/ y.nan THEN NaN
    ELSE DoubleMinusAt(x, y,
                       BigStrip(BigAddCarry(Aligned(x, MaxShift(x, y)),
                                            Aligned(y, MaxShift(x, y)), 0)),
                       MaxShift(x, y))

\* what is typed at the percentage prompt: a numeral in tenths, "r", "nan",
\* or text that float() rejects
PercentageAnswers ==
    {[kind |-> "number", tenths |-> n] : n \in {0, 1, 2, 333, 500, 999, 1000, 1001}}
    \cup {[kind |-> k, tenths |-> 0] : k \in {"r", "nan", "text"}}

SelectCategories ==
    UNION {{get_strategies[k].categories[i] : i \in DOMAIN get_strategies[k].categories} :
              k \in DOMAIN get_strategies}

InitSelect ==
    /\ NoRun
    /\ pc = "select_mode"
    /\ \E category \in SelectCategories :
         args = [category |-> category, available_options |-> category.options,
                 remaining_percentage |-> Hundred, selected_token |-> ""]
    /\ ret = <<>>

\* select_tokens_for_category, lines 707-744: the answer to "Seleccione modo"
SelectMode ==
    /\ pc = "select_mode"
    /\ \E mode_choice \in {"1", "2", "3", "4"} :
         IF Len(args.category.options) = 1
         THEN IF mode_choice = "1"
              THEN /\ ret' = <<TokenSelection(args.category.options[1], Hundred)>>
                   /\ pc' = "returned"
              ELSE IF mode_choice = "2"
              THEN ret' = <<>> /\ pc' = "returned"
              ELSE UNCHANGED <<pc, ret>>
         ELSE IF mode_choice = "3"
         THEN ret' = <<>> /\ pc' = "returned"
         ELSE IF mode_choice = "1"
         THEN pc' = "select_single_token" /\ ret' = ret
         ELSE IF mode_choice = "2"
         THEN pc' = "select_token" /\ ret' = ret
         ELSE UNCHANGED <<pc, ret>>
    /\ UNCHANGED <<run_vars, args>>

\* lines 746-759: the answer to "Seleccione token para ..."
SelectSingleToken ==
    /\ pc = "select_single_token"
    /\ \E choice \in 0..(Len(args.category.options) + 1) :
         IF choice \in DOMAIN args.category.options
         THEN /\ ret' = <<TokenSelection(args.category.options[choice], Hundred)>>
              /\ pc' = "returned"
         ELSE UNCHANGED <<pc, ret>>
    /\ UNCHANGED <<run_vars, args>>

RECURSIVE Remove(_, _)
Remove(list, x) ==
    IF list = <<>> THEN <<>>
    ELSE IF Head(list) = x THEN Tail(list)
    ELSE <<Head(list)>> \o Remove(Tail(list), x)

\* lines 844 and 785: another token is offered while there is percentage and
\* there are options left
AsksForAnother(remaining, available) ==
    DoubleGreater(remaining, Double(<<>>, 0)) /\ available # <<>>

\* lines 824-838 and the conditions that follow
AssignPercentage(token, pct) ==
    IF (~pct.nan /\ ~DoubleGreater(pct, Double(<<>>, 0)))
       \/ DoubleGreater(pct, args.remaining_percentage)
    THEN /\ args' = [args EXCEPT !.selected_token = token]
         /\ pc' = "enter_percentage"
         /\ ret' = ret
    ELSE /\ ret' = Append(ret, TokenSelection(token, pct))
         /\ args' = [args EXCEPT
                        !.selected_token = token,
                        !.remaining_percentage = DoubleMinus(@, pct),
                        !.available_options = Remove(@, token)]
         /\ pc' = IF AsksForAnother(args'.remaining_percentage, args'.available_options)
                  THEN "add_another" ELSE "returned"

\* _select_multiple_tokens_with_distribution, lines 793-812: the answer to
\* "Seleccione token"; the last option takes what remains without a prompt
SelectToken ==
    /\ pc = "select_token"
    /\ \E choice \in 0..(Len(args.available_options) + 1) :
         IF choice \notin DOMAIN args.available_options
         THEN UNCHANGED <<pc, args, ret>>
         ELSE IF Len(args.available_options) = 1
         THEN AssignPercentage(args.available_options[choice], args.remaining_percentage)
         ELSE /\ args' = [args EXCEPT !.selected_token = args.available_options[choice]]
              /\ pc' = "enter_percentage"
              /\ ret' = ret
    /\ UNCHANGED run_vars

\* lines 814-841: the answer to "Porcentaje para ..."
EnterPercentage ==
    /\ pc = "enter_percentage"
    /\ \E pct_input \in PercentageAnswers :
         IF pct_input.kind = "text"
         THEN UNCHANGED <<pc, args, ret>>
         ELSE AssignPercentage(
                  args.selected_token,
                  IF pct_input.kind = "r" THEN args.remaining_percentage
                  ELSE IF pct_input.kind = "nan" THEN NaN
                  ELSE DoubleOfStr(pct_input.tenths, 10,
                                   ShiftBelowOne(pct_input.tenths, 10, 0)))
    /\ UNCHANGED run_vars

\* lines 845-856: the answer to "Agregar otro token? (s/n)"
AddAnother ==
    /\ pc = "add_another"
    /\ \E continue_choice \in {"s", "n"} :
         IF continue_choice = "s"
         THEN pc' = "select_token" /\ UNCHANGED <<args, ret>>
         ELSE /\ ret' = [ret EXCEPT ![Len(ret)] =
                            TokenSelection(@.token,
                                DoublePlus(@.distribution_percentage,
                                           args.remaining_percentage))]
              /\ args' = [args EXCEPT !.remaining_percentage = Double(<<>>, 0)]
              /\ pc' = "returned"
    /\ UNCHANGED run_vars

NextSelect == SelectMode \/ SelectSingleToken \/ SelectToken \/ EnterPercentage \/ AddAnother

SpecSelect == InitSelect /\ [][NextSelect]_vars

(***************************************************************************)
(* SpecConfirm: lines 1401-1408 of run on their own: confirm_execution     *)
(* computes the summary it prints from the allocations, then               *)
(* consolidate_allocations builds the list that execute_orders walks.      *)
(* ret is what the summary showed: the entries in the order printed, the   *)
(* total and the number of orders.                                         *)
(***************************************************************************)
\* confirm_execution, line 893: the else branch counts an order
IsShownAsTrade(token) == ~(token = "USDC")

\* confirm_execution, lines 889-899: the loop over the sorted items
RECURSIVE Summary(_, _, _, _)
Summary(shown, i, total, trade_count) ==
    IF i > Len(shown)
    THEN [entries |-> shown, total |-> total, trade_count |-> trade_count]
    ELSE Summary(shown, i + 1, total + shown[i][2],
                 trade_count + (IF IsShownAsTrade(shown[i][1]) THEN 1 ELSE 0))

\* variant of line 885 that keeps the last amount of a token
OverwriteShown(old, amount) == amount

\* confirm_execution, line 885: consolidated[token] += amount
AddShown(old, amount) == old + amount

\* confirm_execution, lines 882-887: the dict, as the list of its keys in
\* insertion order with the amount under each key; at the end, its items()
RECURSIVE GroupShown(_, _, _, _)
GroupShown(allocs, i, keys, amounts) ==
    IF i > Len(allocs)
    THEN [p \in DOMAIN keys |-> <<keys[p], amounts[keys[p]]>>]
    ELSE IF allocs[i][1] \in DOMAIN amounts
    THEN GroupShown(allocs, i + 1, keys,
                    [amounts EXCEPT ![allocs[i][1]] = AddShown(@, allocs[i][2])])
    ELSE GroupShown(allocs, i + 1, Append(keys, allocs[i][1]),
                    DictPut(amounts, allocs[i][1], allocs[i][2]))

\* the j-th item is printed before the k-th: sorted() with reverse=True puts
\* the larger amount first and keeps items of equal amount in their order
SortsBefore(items, j, k) ==
    items[j][2] > items[k][2] \/ (items[j][2] = items[k][2] /\ j < k)

\* confirm_execution, line 892: sorted(consolidated.items(), key=lambda x: x[1],
\* reverse=True)
sorted_by_amount(items) ==
    [p \in DOMAIN items |->
        items[CHOOSE k \in DOMAIN items :
                  Cardinality({j \in DOMAIN items : SortsBefore(items, j, k)}) = p - 1]]

\* confirm_execution, lines 881-899
confirm_execution(allocs) ==
    Summary(sorted_by_amount(GroupShown(allocs, 1, <<>>, EmptyDict)), 1, 0, 0)

InitConfirm ==
    /\ NoRun
    /\ pc = "confirm_execution"
    /\ \E allocs \in AllocationLists(MaxAllocs) :
         args = allocs
    /\ ret = <<>>

\* run, lines 1401-1405
ConfirmSummaryStep ==
    /\ pc = "confirm_execution"
    /\ ret' = confirm_execution(args)
    /\ \E confirm \in BOOLEAN :
         /\ confirmed' = IF confirm THEN "yes" ELSE "no"
         /\ pc' = IF ProceedsAfter(confirm) THEN "consolidate_allocations" ELSE "returned"
    /\ UNCHANGED <<total_amount, balance, mode, strategy_keys, selections, allocations,
                   consolidated, idx, results, symbol_info_cache, exchange_calls, error,
                   args, balances, tokens_to_sell>>

\* run, line 1408
ConsolidateShownStep ==
    /\ pc = "consolidate_allocations"
    /\ consolidated' = consolidate_allocations(args)
    /\ pc' = "execute_orders"
    /\ UNCHANGED <<total_amount, balance, mode, strategy_keys, selections, allocations,
                   idx, results, symbol_info_cache, exchange_calls, error,
                   args, ret, balances, tokens_to_sell, confirmed>>

NextConfirm == ConfirmSummaryStep \/ ConsolidateShownStep

SpecConfirm == InitConfirm /\ [][NextConfirm]_vars

(***************************************************************************)
(* Properties                                                              *)
(***************************************************************************)
RECURSIVE SumAmounts(_)
SumAmounts(allocs) ==
    IF allocs = <<>> THEN 0 ELSE Head(allocs)[2] + SumAmounts(Tail(allocs))

AllActive(chosen) == \A i \in DOMAIN chosen : chosen[i] # <<>>
AllSkipped(chosen) == \A i \in DOMAIN chosen : chosen[i] = <<>>

RECURSIVE SelectionCount(_)
SelectionCount(chosen) ==
    IF chosen = <<>> THEN 0 ELSE Len(Head(chosen)) + SelectionCount(Tail(chosen))

Calculated == pc = "calculated"
TheStrategy == get_strategies[strategy_keys[1]]
Shortfall == total_amount - SumAmounts(allocations)

FailedOrderCalls ==
    {i \in OrderCalls(exchange_calls) : exchange_calls[i].reply # "ok"}

FailedRecord(amount) == [status |-> "failed", amount |-> FloatOfCents(amount)]

\* C1: whenever an order_market_buy call has raised for an allocation, that
\* allocation is in results as 'failed' with its amount, the loop of
\* execute_orders has moved past it, every allocation the loop has passed
\* since has an outcome of its own, the exception that ended a run is never
\* the one of that call, and a run that returned has an outcome for every
\* allocation of the list.
C1_OrderErrorIsolated ==
    \A i \in FailedOrderCalls :
        \E k \in DOMAIN consolidated :
            /\ consolidated[k][1] \o BASE_ASSET = exchange_calls[i].symbol
            /\ k < idx
            /\ consolidated[k][1] \in DOMAIN results
            /\ results[consolidated[k][1]] = FailedRecord(consolidated[k][2])
            /\ \A j \in (k + 1)..(idx - 1) : consolidated[j][1] \in DOMAIN results
            /\ pc = "raised" => i < Len(exchange_calls)
            /\ pc = "returned" =>
                   \A j \in DOMAIN consolidated : consolidated[j][1] \in DOMAIN results

\* a run that returned in which one order call raised and a later allocation
\* was bought
C1_Witness ==
    /\ pc = "returned"
    /\ \E i \in FailedOrderCalls :
         \E j \in OrderCalls(exchange_calls) :
             /\ i < j
             /\ exchange_calls[j].reply = "ok"
             /\ \E k \in DOMAIN consolidated :
                  /\ consolidated[k][1] \o BASE_ASSET = exchange_calls[j].symbol
                  /\ results[consolidated[k][1]].status = "success"

\* C2: whenever the price lookup of an allocation has raised, the run has not
\* ended with that exception and the allocation is in results as 'failed'.
C2_PriceErrorIsolated ==
    \A i \in DOMAIN exchange_calls :
        (exchange_calls[i].method = "get_symbol_ticker" /\ exchange_calls[i].reply # "ok")
        => /\ pc # "raised"
           /\ \E k \in DOMAIN consolidated :
                /\ consolidated[k][1] \o BASE_ASSET = exchange_calls[i].symbol
                /\ consolidated[k][1] \in DOMAIN results
                /\ results[consolidated[k][1]].status = "failed"

\* C3: once the amount is entered and the account's balance is below it, the
\* run never selects a strategy, never calculates or consolidates an
\* allocation, never calls order_market_buy, and can only be at the balance
\* check or ended.
C3_NoOrderWhenInsufficient ==
    (/\ DecCmp(total_amount, DecimalOfCents(0)) = 1
     /\ DecCmp(DecimalOfCents(balance), total_amount) = -1)
    => /\ OrderCalls(exchange_calls) = {}
       /\ mode = ""
       /\ strategy_keys = <<>>
       /\ allocations = <<>>
       /\ consolidated = <<>>
       /\ pc \in {"validate_balance", "returned", "raised"}

\* a run that ended at the balance check: the account answered, the balance
\* was short
C3_Witness ==
    /\ pc = "returned"
    /\ DecCmp(DecimalOfCents(balance), total_amount) = -1
    /\ exchange_calls = << [method |-> "get_account", symbol |-> "", reply |-> "ok"] >>

\* C4: with every category active (selections summing to 100 in each), the
\* amounts calculate_allocations returns add up to at most total_amount.
C4_SumWithinTotal ==
    (Calculated /\ AllActive(selections[1])) => SumAmounts(allocations) <= total_amount

\* every category active, one of them split over two tokens, and cents lost
C4_Witness ==
    /\ Calculated
    /\ AllActive(selections[1])
    /\ \E i \in DOMAIN selections[1] : Len(selections[1][i]) = 2
    /\ SumAmounts(allocations) < total_amount

\* C5 as stated: with every category active the shortfall is below one cent
\* per category of the strategy.
C5_ShortfallBelowCategories ==
    (Calculated /\ AllActive(selections[1])) => Shortfall < Len(TheStrategy.categories)

\* C5 amended: with every category active the shortfall is below one cent
\* per token selection (one truncation is made per selection, not per
\* category).
C5_ShortfallBelowSelections ==
    (Calculated /\ AllActive(selections[1])) => Shortfall < SelectionCount(selections[1])

\* every category active and a shortfall of at least one cent per category
C5_Witness ==
    /\ Calculated
    /\ AllActive(selections[1])
    /\ Shortfall >= Len(TheStrategy.categories)
    /\ Shortfall < SelectionCount(selections[1])

\* C6: with every category skipped, calculate_allocations returns the one
\* entry (USDC, total_amount).
C6_AllSkippedKeepsTotal ==
    (Calculated /\ AllSkipped(selections[1]))
    => allocations = << <<BASE_ASSET, total_amount>> >>

\* every category of Moderada skipped with 50.00 USDC to invest
C6_Witness ==
    /\ Calculated
    /\ strategy_keys = <<"moderada">>
    /\ AllSkipped(selections[1])
    /\ total_amount = 5000
    /\ allocations = << <<"USDC", 5000>> >>

\* The amounts of C7's formula in exact arithmetic: total x percentage x 100
\* / sum of the active percentages / 100 x distribution / 100, cut to cents.
ExactTokenAmount(total, percentage, active_sum, distribution, rescaled) ==
    IF rescaled
    THEN (total * percentage * distribution) \div (active_sum * 100)
    ELSE (total * percentage * distribution) \div 10000

RECURSIVE ExactTokenAllocations(_, _, _, _, _, _)
ExactTokenAllocations(total, percentage, active_sum, selected_tokens, rescaled, j) ==
    IF j > Len(selected_tokens) THEN <<>>
    ELSE << <<selected_tokens[j].token,
              ExactTokenAmount(total, percentage, active_sum,
                               selected_tokens[j].distribution_percentage, rescaled)>> >>
         \o ExactTokenAllocations(total, percentage, active_sum, selected_tokens,
                                  rescaled, j + 1)

RECURSIVE ExactAllocations(_, _, _, _)
ExactAllocations(categories, total, chosen, i) ==
    IF i > Len(categories) THEN <<>>
    ELSE ExactTokenAllocations(total, categories[i].percentage.num,
                               SumActivePercentage(categories, chosen, 1),
                               chosen[i], \E k \in DOMAIN chosen : chosen[k] = <<>>, 1)
         \o ExactAllocations(categories, total, chosen, i + 1)

\* C7: with at least one category active, calculate_allocations returns, in
\* category order then selection order, exactly one entry per selection of
\* an active category, whose amount is total_amount x effective percentage
\* / 100 x distribution percentage / 100 cut to two decimals.
C7_ExactAmounts ==
    (Calculated /\ ~AllSkipped(selections[1]))
    => allocations = ExactAllocations(TheStrategy.categories, total_amount, selections[1], 1)

\* The strategy that holds only the active categories, each with the weight
\* percentage x 100 / sum of the active percentages.
RECURSIVE FoldedCategories(_, _, _)
FoldedCategories(categories, chosen, i) ==
    IF i > Len(categories) THEN <<>>
    ELSE (IF chosen[i] = <<>> THEN <<>>
          ELSE << [name |-> categories[i].name,
                   percentage |-> FloatDiv(FloatTimes100(categories[i].percentage),
                                           active_total_percentage(categories, chosen)),
                   options |-> categories[i].options] >>)
         \o FoldedCategories(categories, chosen, i + 1)

FoldedStrategy(strategy, chosen) ==
    [name |-> strategy.name, categories |-> FoldedCategories(strategy.categories, chosen, 1)]

ActiveChoices(chosen) == SelectSeq(chosen, LAMBDA c : c # <<>>)

SameWithinOneCent(a, b) ==
    /\ Len(a) = Len(b)
    /\ \A k \in DOMAIN a :
         /\ a[k][1] = b[k][1]
         /\ a[k][2] - b[k][2] \in {-1, 0, 1}

\* C8: with some category skipped and some active, the allocations equal,
\* entry by entry and within one cent, those of a run without skips of the
\* folded strategy, and those of the fold in exact arithmetic.
C8_RedistributionEqualsFolded ==
    (Calculated /\ ~AllActive(selections[1]) /\ ~AllSkipped(selections[1]))
    => /\ SameWithinOneCent(allocations,
              calculate_allocations(FoldedStrategy(TheStrategy, selections[1]),
                                    DecimalOfCents(total_amount),
                                    ActiveChoices(selections[1])))
       /\ SameWithinOneCent(allocations,
              ExactAllocations(TheStrategy.categories, total_amount, selections[1], 1))

\* Moderada with 70.00 USDC, some category skipped, active percentages that
\* sum to 70: Bitcoin gets 29.99 where the exact fold gives 30.00
C8_Witness ==
    /\ Calculated
    /\ strategy_keys = <<"moderada">>
    /\ ~AllActive(selections[1])
    /\ total_amount = 7000
    /\ SumActivePercentage(TheStrategy.categories, selections[1], 1) = 70
    /\ allocations[1] = <<"BTC", 2999>>

TokensOf(allocs) == {allocs[i][1] : i \in DOMAIN allocs}

RECURSIVE SumOfToken(_, _)
SumOfToken(allocs, token) ==
    IF allocs = <<>> THEN 0
    ELSE (IF Head(allocs)[1] = token THEN Head(allocs)[2] ELSE 0)
         + SumOfToken(Tail(allocs), token)

FirstSeen(allocs, token) ==
    CHOOSE i \in DOMAIN allocs :
        allocs[i][1] = token /\ \A j \in 1..(i - 1) : allocs[j][1] # token

\* C9: the list consolidate_allocations returns holds each symbol of its
\* input exactly once and no other symbol, each with the sum of the input
\* amounts of that symbol, so both lists have the same total.
C9_ConsolidateSums ==
    pc = "consolidated"
    => /\ TokensOf(consolidated) = TokensOf(allocations)
       /\ \A i, j \in DOMAIN consolidated :
              consolidated[i][1] = consolidated[j][1] => i = j
       /\ \A i \in DOMAIN consolidated :
              consolidated[i][2] = SumOfToken(allocations, consolidated[i][1])
       /\ SumAmounts(consolidated) = SumAmounts(allocations)

\* the example [(A,10),(B,5),(A,3)] with A = BTC, B = ETH
C9_Witness ==
    /\ pc = "consolidated"
    /\ allocations = << <<"BTC", 1000>>, <<"ETH", 500>>, <<"BTC", 300>> >>
    /\ consolidated = << <<"BTC", 1300>>, <<"ETH", 500>> >>

\* C10: the list consolidate_allocations returns is in non-increasing order
\* of amount, and entries of equal amount are in the order in which their
\* symbols first appear in the input.
C10_SortedStable ==
    pc = "consolidated"
    => \A i, j \in DOMAIN consolidated :
           i < j => /\ consolidated[i][2] >= consolidated[j][2]
                    /\ consolidated[i][2] = consolidated[j][2]
                       => FirstSeen(allocations, consolidated[i][1])
                          < FirstSeen(allocations, consolidated[j][1])

\* two symbols end with equal sums behind a larger third one that was seen
\* last
C10_Witness ==
    /\ pc = "consolidated"
    /\ Len(consolidated) = 3
    /\ consolidated[2][2] = consolidated[3][2]
    /\ consolidated[1][2] > consolidated[2][2]
    /\ FirstSeen(allocations, consolidated[1][1]) > FirstSeen(allocations, consolidated[3][1])
    /\ Len(allocations) > 3

\* C11: adjust_quantity_to_lot_size returns the quantity itself when the
\* step size is zero, and otherwise the largest whole multiple of the step
\* size that is not above the quantity: a multiple, not above it, and less
\* than one step below it.
C11_LargestMultipleBelow ==
    pc = "adjusted"
    => IF args.step_size = 0
       THEN ret = args.quantity
       ELSE /\ ret.den = 1
            /\ ret.num % args.step_size = 0
            /\ ret.num * args.quantity.den <= args.quantity.num
            /\ args.quantity.num < (ret.num + args.step_size) * args.quantity.den

\* the example (1.23456, 0.001) gives 1.234
C11_Witness ==
    /\ pc = "adjusted"
    /\ args = [quantity |-> [num |-> 123456, den |-> 1], step_size |-> 100]
    /\ ret = [num |-> 123400, den |-> 1]

\* what the exchange's answers make of the filters of the symbol bought in
\* SpecBuy: the published ones when the symbol is cached or the request that
\* is made for it is answered, the defaults otherwise
PublishedAtMinNotional ==
    "BTCUSDC" \in DOMAIN args.cache \/ args.replies.info1 = "ok"
PublishedAtLotSize ==
    PublishedAtMinNotional \/ args.replies.info2 = "ok"
ExpectedMinNotional ==
    IF PublishedAtMinNotional THEN ExchangeSymbolInfo("BTCUSDC").minNotional
    ELSE DefaultMinNotional
ExpectedMinQty ==
    IF PublishedAtLotSize THEN ExchangeSymbolInfo("BTCUSDC").minQty ELSE DefaultMinQty
ExpectedMaxQty ==
    IF PublishedAtLotSize THEN ExchangeSymbolInfo("BTCUSDC").maxQty
    ELSE BigMulSmall(BigOfNat(DefaultMaxQty), QtyUnitsPerToken)
ExpectedStepSize ==
    IF PublishedAtLotSize THEN ExchangeSymbolInfo("BTCUSDC").stepSize ELSE DefaultStepSize

\* C12: a buy whose amount is below the minimum notional of the symbol is
\* rejected by validate_order whatever the price is, without a price lookup,
\* and execute_market_buy then returns None without an order call.
C12_BelowMinNotionalRejected ==
    args.usdc_amount < ExpectedMinNotional
    => /\ pc = "validated"
          => /\ ~ret.is_valid
             /\ ret.raised = ""
             /\ CallsOf(ret.calls, "get_symbol_ticker") = {}
       /\ pc = "execute_market_buy returned"
          => /\ ret.order = None
             /\ ret.raised = ""
             /\ CallsOf(ret.calls, "get_symbol_ticker") = {}
             /\ CallsOf(ret.calls, "order_market_buy") = {}

\* 9.00 USDC against the default minimum of 10 USDC, at a price at which the
\* quantity would pass the LOT_SIZE limits
C12_Witness ==
    /\ pc = "execute_market_buy returned"
    /\ args.usdc_amount = 900
    /\ ExpectedMinNotional = DefaultMinNotional
    /\ args.replies.ticker = [error |-> "", price |-> 10000]
    /\ ret.order = None

\* the quantity validate_order derives: usdc_amount / price, taken down to a
\* multiple of the step size
ExpectedAdjusted ==
    ((args.usdc_amount * QtyUnitsPerToken)
        \div (args.replies.ticker.price * ExpectedStepSize)) * ExpectedStepSize

ExpectedWithinLimits ==
    /\ ExpectedMinQty <= ExpectedAdjusted
    /\ BigCmp(BigOfNat(ExpectedAdjusted), ExpectedMaxQty) # 1

\* C13: for an amount that is not below the minimum notional, validate_order
\* accepts exactly when the adjusted quantity lies between min_qty and
\* max_qty, and then returns the adjusted quantity.
C13_AcceptsWithinLotLimits ==
    (pc = "validated" /\ ret.raised = "" /\ args.usdc_amount >= ExpectedMinNotional)
    => /\ ret.is_valid <=> ExpectedWithinLimits
       /\ ret.is_valid => ret.quantity = [num |-> ExpectedAdjusted, den |-> 1]

C13_Witness ==
    /\ pc = "validated"
    /\ args.usdc_amount = 4000
    /\ args.replies.ticker = [error |-> "", price |-> 10000]
    /\ PublishedAtLotSize
    /\ ret.is_valid
    /\ ret.quantity = [num |-> 40000, den |-> 1]

\* the filters that apply to the symbol sold in SpecSellOrder: LOT_SIZE is
\* looked up first, the minimum notional after the price
SellPublishedAtLotSize ==
    "BTCUSDC" \in DOMAIN args.cache \/ args.replies.info1 = "ok"
SellPublishedAtMinNotional ==
    SellPublishedAtLotSize \/ args.replies.info2 = "ok"
SellExpectedStepSize ==
    IF SellPublishedAtLotSize THEN ExchangeSymbolInfo("BTCUSDC").stepSize
    ELSE DefaultStepSize
SellExpectedMinQty ==
    IF SellPublishedAtLotSize THEN ExchangeSymbolInfo("BTCUSDC").minQty ELSE DefaultMinQty
SellExpectedMinNotional ==
    IF SellPublishedAtMinNotional THEN ExchangeSymbolInfo("BTCUSDC").minNotional
    ELSE DefaultMinNotional
\* the quantity taken down to a multiple of the step size
SellExpectedAdjusted ==
    (args.quantity.num \div (args.quantity.den * SellExpectedStepSize))
        * SellExpectedStepSize
\* adjusted quantity times price is at least the minimum notional
SellValueSuffices ==
    BigCmp(BigProduct(BigOfNat(SellExpectedAdjusted), BigOfNat(args.replies.ticker.price)),
           BigMulSmall(BigOfNat(SellExpectedMinNotional), QtyUnitsPerToken)) # -1

\* C14: execute_market_sell submits at most one sell order, for the quantity
\* normalised to the step size, and only when that quantity times the current
\* price reaches the minimum notional; a sale that passed the minQty check and
\* the price lookup is submitted if the value reaches the minimum and is
\* rejected with no order otherwise.
C14_SellNormalisedAboveMinNotional ==
    pc = "execute_market_sell returned"
    => /\ Cardinality(CallsOf(ret.calls, "order_market_sell")) <= 1
       /\ \A i \in CallsOf(ret.calls, "order_market_sell") :
            /\ ret.calls[i].quantity =
                  [num |-> SellExpectedAdjusted, den |-> QtyUnitsPerToken]
            /\ args.replies.ticker.error = ""
            /\ SellValueSuffices
       /\ (SellExpectedAdjusted >= SellExpectedMinQty /\ args.replies.ticker.error = "")
          => IF SellValueSuffices
             THEN CallsOf(ret.calls, "order_market_sell") # {}
             ELSE CallsOf(ret.calls, "order_market_sell") = {} /\ ret.order = None

\* 1.23456 BTC at 100 USDC: 1.2345 BTC are sold
C14_Witness ==
    /\ pc = "execute_market_sell returned"
    /\ args.quantity = [num |-> 123456, den |-> 1]
    /\ args.replies.ticker = [error |-> "", price |-> 10000]
    /\ \E i \in CallsOf(ret.calls, "order_market_sell") :
          ret.calls[i].quantity = [num |-> 123450, den |-> QtyUnitsPerToken]
    /\ ret.order # None

\* C15: the pass of execute_orders over a USDC allocation makes no exchange
\* call (no symbol lookup, no price lookup, no order), records the outcome
\* 'skipped' with the reason 'Base asset - no trade needed' and the amount,
\* and leaves the loop at the next allocation.
C15_BaseAssetSkipped ==
    [][(pc = "execute_orders" /\ idx <= Len(consolidated)
          /\ consolidated[idx][1] = "USDC")
       => /\ exchange_calls' = exchange_calls
          /\ symbol_info_cache' = symbol_info_cache
          /\ results' = DictPut(results, "USDC",
                           [status |-> "skipped",
                            reason |-> "Base asset - no trade needed",
                            amount |-> FloatOfCents(consolidated[idx][2])])
          /\ idx' = idx + 1
          /\ pc' = "execute_orders"]_vars

\* a USDC allocation was skipped and an allocation after it was bought
C15_Witness ==
    /\ pc = "returned"
    /\ \E k \in DOMAIN consolidated :
          /\ consolidated[k][1] = "USDC"
          /\ k < Len(consolidated)
          /\ results["USDC"].status = "skipped"
          /\ results["USDC"].amount = FloatOfCents(consolidated[k][2])
          /\ results[consolidated[k + 1][1]].status = "success"
    /\ \A i \in DOMAIN exchange_calls :
          exchange_calls[i].symbol # "USDCUSDC"

\* C16: when validate_order rejects an allocation (minimum notional, minQty
\* or maxQty), the pass of execute_orders over it adds no order call to the
\* calls the validator made, records 'failed' with the amount that was
\* attempted, and leaves the loop at the next allocation.
C16_RejectionRecordedFailed ==
    [][(pc = "execute_orders" /\ idx <= Len(consolidated)
          /\ consolidated[idx][1] # "USDC"
          /\ ret'.raised = "" /\ ~ret'.is_valid)
       => /\ ret'.message \in {"menor al minimo requerido", "menor a minQty",
                               "mayor a maxQty"}
          /\ exchange_calls' = exchange_calls \o ret'.calls
          /\ CallsOf(ret'.calls, "order_market_buy") = {}
          /\ results' = DictPut(results, consolidated[idx][1],
                           [status |-> "failed",
                            amount |-> FloatOfCents(consolidated[idx][2])])
          /\ idx' = idx + 1
          /\ pc' = "execute_orders"]_vars

\* a rejected allocation is recorded as failed with no order call for its
\* symbol, and the allocation after it is bought
C16_Witness ==
    /\ pc = "returned"
    /\ \E k \in DOMAIN consolidated :
          /\ k < Len(consolidated)
          /\ consolidated[k][1] # "USDC"
          /\ results[consolidated[k][1]] =
                [status |-> "failed", amount |-> FloatOfCents(consolidated[k][2])]
          /\ \A i \in DOMAIN exchange_calls :
                exchange_calls[i].symbol = consolidated[k][1] \o "USDC"
                => exchange_calls[i].method # "order_market_buy"
          /\ consolidated[k + 1][1] # "USDC"
          /\ results[consolidated[k + 1][1]].status = "success"

RECURSIVE SharesOf(_, _)
\* the allocations of the strategies from the k-th on, each calculated on
\* the share kept in ret
SharesOf(k, share) ==
    IF k > Len(strategy_keys) THEN <<>>
    ELSE calculate_allocations(get_strategies[strategy_keys[k]], DecimalOfCents(share),
                               selections[k])
         \o SharesOf(k + 1, share)

\* C17: in combined mode every one of the n strategies is given the same
\* share, total / n cut to whole cents (the largest share with n shares not
\* above the total; 50.00 each for 100.00 and two strategies), and the
\* allocations of all strategies together do not exceed the total.
C17_EqualSharesWithinTotal ==
    pc = "combined"
    => /\ ret * Len(strategy_keys) <= total_amount
       /\ total_amount < (ret + 1) * Len(strategy_keys)
       /\ (total_amount = 10000 /\ Len(strategy_keys) = 2) => ret = 5000
       /\ allocations = SharesOf(1, ret)
       /\ SumAmounts(allocations) <= ret * Len(strategy_keys)
       /\ SumAmounts(allocations) <= total_amount

\* 100.01 USDC over Moderada and Conservadora: 50.00 each, one cent left
C17_Witness ==
    /\ pc = "combined"
    /\ total_amount = 10001
    /\ strategy_keys = <<"moderada", "conservadora">>
    /\ ret = 5000
    /\ allocations # <<>>
    /\ SumAmounts(allocations) <= 10000

\* order-placement calls, market buy or market sell
PlacementCalls(calls) ==
    CallsOf(calls, "order_market_buy") \cup CallsOf(calls, "order_market_sell")

\* the token of the entry the loop of execute_orders or execute_sell_orders
\* stands at
CurrentToken ==
    IF pc = "execute_orders" THEN consolidated[idx][1] ELSE tokens_to_sell[idx].asset

\* C18: no retry.  A step makes at most one order-placement call; the call
\* is for the entry the loop stands at, and the step leaves that entry for
\* the next one whether the call succeeded or failed, writing 'failed' for it
\* and nothing else when it failed; the loop never goes back to an entry.
C18_NoRetry ==
    [][/\ Cardinality(PlacementCalls(exchange_calls'))
             <= Cardinality(PlacementCalls(exchange_calls)) + 1
       /\ (pc \in {"execute_orders", "execute_sell_orders"} /\ pc' = pc) => idx' >= idx
       /\ Cardinality(PlacementCalls(exchange_calls'))
             = Cardinality(PlacementCalls(exchange_calls)) + 1
          => /\ pc \in {"execute_orders", "execute_sell_orders"}
             /\ Len(exchange_calls') \in PlacementCalls(exchange_calls')
             /\ exchange_calls'[Len(exchange_calls')].symbol = CurrentToken \o "USDC"
             /\ idx' = idx + 1
             /\ exchange_calls'[Len(exchange_calls')].reply # "ok"
                => /\ results'[CurrentToken].status = "failed"
                   /\ results' = DictPut(results, CurrentToken, results'[CurrentToken])]_vars

\* two assets were selected for sale; the order for the first one failed and
\* was not placed again, the second one was sold
C18_Witness ==
    /\ pc = "returned"
    /\ Len(tokens_to_sell) = 2
    /\ idx = 3
    /\ tokens_to_sell[1].asset # tokens_to_sell[2].asset
    /\ results[tokens_to_sell[1].asset].status = "failed"
    /\ results[tokens_to_sell[2].asset].status = "success"
    /\ \E i \in CallsOf(exchange_calls, "order_market_sell") :
          /\ exchange_calls[i].symbol = tokens_to_sell[1].asset \o "USDC"
          /\ exchange_calls[i].reply # "ok"
    /\ Cardinality(CallsOf(exchange_calls, "order_market_sell")) = 2

\* the entries of the consolidated list for which a request for symbol went
\* to the exchange
EntriesOf(symbol) == {k \in DOMAIN consolidated : consolidated[k][1] \o "USDC" = symbol}

\* C19: in the buy flow the consolidated list is in non-increasing order of
\* amount; every request to the exchange after the balance check belongs to
\* one entry of it, and when a request for an entry has been made every
\* entry before it has a recorded outcome; the order-placement calls follow the list: each is for a later
\* entry than the one before, with that entry's amount.
C19_OneAtATimeInListOrder ==
    pc \in {"execute_orders", "returned", "raised"}
    => /\ \A i, j \in DOMAIN consolidated :
             i < j => consolidated[i][2] >= consolidated[j][2]
       /\ \A c \in DOMAIN exchange_calls \ CallsOf(exchange_calls, "get_account") :
             /\ Cardinality(EntriesOf(exchange_calls[c].symbol)) = 1
             /\ \A k \in EntriesOf(exchange_calls[c].symbol) :
                   \A j \in 1..(k - 1) : consolidated[j][1] \in DOMAIN results
       /\ \A c \in CallsOf(exchange_calls, "order_market_buy") :
             \A k \in EntriesOf(exchange_calls[c].symbol) :
                /\ exchange_calls[c].quoteOrderQty = FloatOfCents(consolidated[k][2])
                /\ \A d \in CallsOf(exchange_calls, "order_market_buy") :
                      d < c => \A m \in EntriesOf(exchange_calls[d].symbol) : m < k

\* three orders were placed for a list of three entries with different
\* amounts, in the order of the list
C19_Witness ==
    /\ pc = "returned"
    /\ Len(consolidated) >= 3
    /\ consolidated[1][2] > consolidated[2][2]
    /\ Cardinality(CallsOf(exchange_calls, "order_market_buy")) >= 3
    /\ \E c, d \in CallsOf(exchange_calls, "order_market_buy") :
          /\ c < d
          /\ exchange_calls[c].symbol = consolidated[1][1] \o "USDC"
          /\ exchange_calls[d].symbol = consolidated[2][1] \o "USDC"

\* C20: once execute_orders has started, it ends by returning, with an
\* outcome 'success', 'skipped' or 'failed' recorded for every entry of the
\* consolidated list.
C20_EveryEntryEndsWithOutcome ==
    (idx >= 1 /\ pc \in {"returned", "raised"})
    => /\ pc = "returned"
       /\ \A k \in DOMAIN consolidated :
             /\ consolidated[k][1] \in DOMAIN results
             /\ results[consolidated[k][1]].status \in {"success", "skipped", "failed"}

\* C21: no order is placed, and nothing is consolidated or executed, unless
\* the confirmation of the run returned True; after a declined confirmation
\* the run has ended, execution never started and no order-placement call
\* was made.
C21_ConfirmedBeforeOrders ==
    /\ PlacementCalls(exchange_calls) # {} => confirmed = "yes"
    /\ pc \in {"consolidate_allocations", "execute_orders", "execute_sell_orders"}
          => confirmed = "yes"
    /\ (consolidated # <<>> \/ idx >= 1) => confirmed = "yes"
    /\ confirmed = "no"
          => pc = "returned" /\ PlacementCalls(exchange_calls) = {}

\* the sale of two selected assets was declined
C21_Witness ==
    /\ confirmed = "no"
    /\ Len(tokens_to_sell) = 2
    /\ pc = "returned"
    /\ PlacementCalls(exchange_calls) = {}

\* C22: in the take-profit flow no failure of one sale leaves
\* execute_sell_orders: the flow never ends by an exception, every asset
\* whose sale made a request that the exchange answered with an error is
\* recorded as 'failed' with its quantity, and when the flow has returned
\* every selected asset has an outcome.
C22_SellFailuresIsolated ==
    (confirmed = "yes" /\ tokens_to_sell # <<>>)
    => /\ pc # "raised"
       /\ \A c \in DOMAIN exchange_calls :
             exchange_calls[c].method \in {"get_symbol_ticker", "order_market_sell"}
                /\ exchange_calls[c].reply # "ok"
             => \E k \in DOMAIN tokens_to_sell :
                   /\ tokens_to_sell[k].asset \o "USDC" = exchange_calls[c].symbol
                   /\ tokens_to_sell[k].asset \in DOMAIN results
       /\ pc = "returned"
          => \A k \in DOMAIN tokens_to_sell : tokens_to_sell[k].asset \in DOMAIN results

\* the upper LOT_SIZE limit that applies to the symbol sold in SpecSellOrder
SellExpectedMaxQty ==
    IF SellPublishedAtLotSize THEN ExchangeSymbolInfo("BTCUSDC").maxQty
    ELSE BigMulSmall(BigOfNat(DefaultMaxQty), QtyUnitsPerToken)

\* C23: a sale whose normalised quantity is below min_qty or above max_qty
\* is rejected: execute_market_sell returns None and places no sell order.
C23_SellWithinLotLimits ==
    (pc = "execute_market_sell returned"
       /\ (SellExpectedAdjusted < SellExpectedMinQty
           \/ BigCmp(BigOfNat(SellExpectedAdjusted), SellExpectedMaxQty) = 1))
    => /\ ret.order = None
       /\ CallsOf(ret.calls, "order_market_sell") = {}

\* C24: an entry of the symbol cache is never removed or replaced; a lookup
\* of a cached symbol returns the stored value and makes no request to the
\* exchange.
C24_CacheEntriesKept ==
    [][\A symbol \in DOMAIN symbol_info_cache :
          /\ symbol \in DOMAIN symbol_info_cache'
          /\ symbol_info_cache'[symbol] = symbol_info_cache[symbol]
          /\ args'[Len(args')] = symbol
             => /\ ret'[Len(ret')] = Some(symbol_info_cache[symbol])
                /\ exchange_calls' = exchange_calls]_vars

\* ETHUSDC was looked up three times: one request, the same value each time
C24_Witness ==
    /\ args = <<"ETHUSDC", "ETHUSDC", "ETHUSDC">>
    /\ Len(exchange_calls) = 1
    /\ ret[1] = Some(ExchangeSymbolInfo("ETHUSDC"))
    /\ ret[2] = ret[1]
    /\ ret[3] = ret[1]
    /\ symbol_info_cache["ETHUSDC"] = ExchangeSymbolInfo("ETHUSDC")

\* C25: in the take-profit flow every market sell submitted to the exchange is for
\* an asset of the listed balances that is held (free > 0), is neither the
\* reference asset USDC nor one of the stablecoins USDT, BUSD, TUSD, USDP, FDUSD,
\* and was marked can_sell, whatever the user selected.
C25_SellsOnlySellable ==
    \A i \in CallsOf(exchange_calls, "order_market_sell") :
        \E k \in DOMAIN balances :
            /\ exchange_calls[i].symbol = balances[k].asset \o BASE_ASSET
            /\ balances[k].asset # BASE_ASSET
            /\ balances[k].asset \notin {"USDT", "BUSD", "TUSD", "USDP", "FDUSD"}
            /\ balances[k].can_sell
            /\ balances[k].free.num > 0

\* a sale was submitted while the listed balances held USDC, a stablecoin and an
\* asset worth less than the minimum notional
C25_Witness ==
    /\ CallsOf(exchange_calls, "order_market_sell") # {}
    /\ \E k \in DOMAIN balances : balances[k].asset = BASE_ASSET
    /\ \E k \in DOMAIN balances : balances[k].asset = "USDT"
    /\ \E k \in DOMAIN balances :
          balances[k].asset \notin Stablecoins /\ ~balances[k].can_sell

\* sum() of the percentages, added from the left as doubles
RECURSIVE SumPercentages(_, _, _)
SumPercentages(list, i, acc) ==
    IF i > Len(list) THEN acc
    ELSE SumPercentages(list, i + 1, DoublePlus(acc, list[i].distribution_percentage))

DoubleEquals(x, y) ==
    /\ ~x.nan
    /\ ~y.nan
    /\ BigCmp(Aligned(x, MaxShift(x, y)), Aligned(y, MaxShift(x, y))) = 0

\* C26: every non-empty list returned by select_tokens_for_category has
\* percentages that are each greater than 0 and add up to exactly 100, with
\* every token one of the category's options and no token listed twice.
C26_SelectionsTotalHundred ==
    (pc = "returned" /\ ret # <<>>)
    => /\ \A i \in DOMAIN ret :
             /\ DoubleGreater(ret[i].distribution_percentage, Double(<<>>, 0))
             /\ \E k \in DOMAIN args.category.options :
                   ret[i].token = args.category.options[k]
       /\ \A i, j \in DOMAIN ret : ret[i].token = ret[j].token => i = j
       /\ DoubleEquals(SumPercentages(ret, 1, Double(<<>>, 0)), Hundred)

\* the quote amounts of the market buys in a list of calls, in cents
RECURSIVE SubmittedCents(_)
SubmittedCents(calls) ==
    IF calls = <<>> THEN 0
    ELSE (IF Head(calls).method = "order_market_buy"
          THEN Head(calls).quoteOrderQty.num ELSE 0)
         + SubmittedCents(Tail(calls))

\* C27: in a run of the buy flow the quote amounts submitted in all market
\* buys, failed ones included, add up to at most the total_amount the user entered,
\* which is at most the balance of the reference asset once an order is
\* submitted; each submitted amount is the amount of one consolidated entry.
C27_NeverOverspend ==
    /\ DecCmp(DecimalOfCents(SubmittedCents(exchange_calls)), total_amount) <= 0
    /\ CallsOf(exchange_calls, "order_market_buy") # {}
       => DecCmp(total_amount, DecimalOfCents(balance)) <= 0
    /\ \A c \in CallsOf(exchange_calls, "order_market_buy") :
          /\ exchange_calls[c].quoteOrderQty.den = 100
          /\ \E k \in DOMAIN consolidated :
                /\ exchange_calls[c].symbol = consolidated[k][1] \o BASE_ASSET
                /\ exchange_calls[c].quoteOrderQty.num = consolidated[k][2]

\* C28: when a take-profit run has executed its sales, no asset was submitted
\* for sale more than once and the report holds one outcome for every entry
\* of the selected list, whatever selection was entered.
C28_EachAssetSoldOnce ==
    (pc = "returned" /\ confirmed = "yes" /\ tokens_to_sell # <<>>)
    => /\ \A c, d \in CallsOf(exchange_calls, "order_market_sell") :
             exchange_calls[c].symbol = exchange_calls[d].symbol => c = d
       /\ Cardinality(DOMAIN results) = Len(tokens_to_sell)

\* C29: what confirm_execution showed is what execute_orders gets: the
\* entries of the summary (token totals in descending order) are the
\* consolidated list, the total shown is the sum of its amounts, and the
\* number of orders shown is the number of its entries that are not USDC.
C29_ShownIsExecuted ==
    (pc = "execute_orders" /\ confirmed = "yes")
    => /\ ret.entries = consolidated
       /\ ret.total = SumAmounts(consolidated)
       /\ ret.trade_count
            = Cardinality({k \in DOMAIN consolidated :
                              ~IsBaseAssetEntry(consolidated[k][1])})

\* four allocations with a token named twice and a USDC entry were shown and
\* consolidated
C29_Witness ==
    /\ pc = "execute_orders"
    /\ Len(args) = 4
    /\ Len(consolidated) = 3
    /\ \E k \in DOMAIN consolidated : consolidated[k][1] = "USDC"
    /\ ret.trade_count = 2
    /\ ret.total = SumAmounts(args)

\* every category of the k-th selected strategy was skipped
SkippedWhole(k) == AllSkipped(selections[k])

\* what the k-th strategy gives on its own share
OwnPart(k, share) ==
    IF SkippedWhole(k)
    THEN << <<"USDC", share>> >>
    ELSE CategoryAllocations(get_strategies[strategy_keys[k]].categories,
                             DecimalOfCents(share), selections[k], 1)

RECURSIVE OwnParts(_, _)
OwnParts(k, share) ==
    IF k > Len(strategy_keys) THEN <<>>
    ELSE OwnPart(k, share) \o OwnParts(k + 1, share)

\* C30: in combined mode, when every category of one strategy is skipped and
\* another strategy has an active category, the skipped strategy gives
\* exactly (USDC, its share of the capital), every other strategy gives what
\* its own selections give on its own share and no more than that share, and
\* after consolidation the USDC is one entry of at least the share that ends
\* as "skipped" with no order placed for it.
C30_SkippedStrategyKeepsShare ==
    (/\ mode = "combined"
     /\ allocations # <<>>
     /\ \E k \in DOMAIN strategy_keys : SkippedWhole(k)
     /\ \E k \in DOMAIN strategy_keys : ~SkippedWhole(k))
    => /\ allocations = OwnParts(1, QuantizeDown(total_amount) \div Len(strategy_keys))
       /\ \A k \in DOMAIN strategy_keys :
             SumAmounts(OwnPart(k, QuantizeDown(total_amount) \div Len(strategy_keys)))
                <= QuantizeDown(total_amount) \div Len(strategy_keys)
       /\ consolidated # <<>>
          => /\ Cardinality({j \in DOMAIN consolidated : consolidated[j][1] = "USDC"}) = 1
             /\ \A j \in DOMAIN consolidated :
                   consolidated[j][1] = "USDC"
                   => consolidated[j][2] >= QuantizeDown(total_amount) \div Len(strategy_keys)
       /\ \A c \in PlacementCalls(exchange_calls) : exchange_calls[c].symbol # "USDCUSDC"
       /\ (pc = "returned" /\ confirmed = "yes")
          => /\ "USDC" \in DOMAIN results
             /\ results["USDC"].status = "skipped"

\* a combined run ended in which the first strategy was skipped whole, the
\* second was bought, and the USDC entry holds exactly the first one's share
C30_Witness ==
    /\ pc = "returned"
    /\ mode = "combined"
    /\ confirmed = "yes"
    /\ SkippedWhole(1)
    /\ ~SkippedWhole(2)
    /\ CallsOf(exchange_calls, "order_market_buy") # {}
    /\ "USDC" \in DOMAIN results
    /\ results["USDC"].status = "skipped"
    /\ results["USDC"].amount = FloatOfCents(QuantizeDown(total_amount) \div 2)

====
